---- MODULE Spec2Model ----
(***************************************************************************)
(* Runtime module lifecycle and health monitoring of the micro-frontend    *)
(* host: the namespaced event bus, the Module Federation loader, the       *)
(* MFELoaderService orchestrator, the React lifecycle implementations and  *)
(* the telemetry registry.                                                 *)
(*                                                                         *)
(* Strings that the code takes apart (event names, namespaces) are         *)
(* sequences of one-character strings, so that startsWith, substring and   *)
(* concatenation are computed and not assumed.                             *)
(***************************************************************************)
EXTENDS Integers, Sequences, FiniteSets, TLC

VARIABLES
    \* ---- event bus (shared/mfe-core/src/event-bus.ts)
    subscriptions,   \* bus -> Map<fullEvent, Set<handler>>, a Set kept in insertion order
    unsubs,          \* the unsubscribe callbacks clients hold
    invoked,         \* the callbacks of unsubs that have been invoked at least once
    preDestroy,      \* the callbacks of unsubs obtained before a destroy() of their bus
    lastCall,        \* what the bus call just made did (forgotten at the next call)
    \* ---- ModuleFederationLoader (mfe-core module-federation-loader)
    loadedMFEs,      \* Map<name, MFELifecycle>: the lifecycle object cached per name
    loadedScripts,   \* Set<remoteUrl>
    scriptElements,  \* Map<name, script element>, a script named by its src
    windowScopes,    \* names whose container the remote entry defined on window
    nextRef,         \* lifecycle objects allocated so far
    procs,           \* the asynchronous calls in progress, one per caller
    nCalls,          \* calls started so far
    seq,             \* per name: the load() calls since the last unload were sequential
    cachedSince,     \* per name: what happened since its first successful load
    \* ---- MFELoaderService, the React lifecycles and the telemetry registry
    loadedInstances,     \* MFELoaderService.loadedInstances: Map<name, instance>
    lifecycleCache,      \* MFELoaderService.lifecycleCache: Map<name, lifecycle>
    instances,           \* the MFEInstance objects mount() has returned, in order
    trackers,            \* the MFETelemetry objects, named by the mount call that made them
    telemetry,           \* TelemetryRegistry.telemetry: Map<instanceId, tracker>
    telemetryByMfeName,  \* TelemetryRegistry.telemetryByMfeName: Map<name, tracker>
    containerDom,        \* content of #react-container: 0 empty, i the tree of instance i
    busSubscribers,      \* instances whose App holds a subscription on the host event bus
    idsDrawn             \* the instance ids the mount() calls have built, in order

busVars == <<subscriptions, unsubs, invoked, preDestroy, lastCall>>
loaderVars == <<loadedMFEs, loadedScripts, scriptElements, windowScopes, nextRef,
                procs, nCalls, seq, cachedSince>>
hostVars == <<loadedInstances, lifecycleCache, instances, trackers, telemetry,
              telemetryByMfeName, containerDom, busSubscribers, idsDrawn>>
vars == <<subscriptions, unsubs, invoked, preDestroy, lastCall,
          loadedMFEs, loadedScripts, scriptElements, windowScopes, nextRef,
          procs, nCalls, seq, cachedSince,
          loadedInstances, lifecycleCache, instances, trackers, telemetry,
          telemetryByMfeName, containerDom, busSubscribers, idsDrawn>>

-----------------------------------------------------------------------------
\* Bounds of the model

\* unsubscribe callbacks clients hold (subscribe() calls made by clients)
MaxSubscribeCalls == 2
\* handler invocations simulated inside one publish()
MaxDeliveries == 6
\* asynchronous calls (load, loadMFE, unloadMFE) started per behaviour
MaxCalls == 3
MaxTrackerCalls == 5

-----------------------------------------------------------------------------
\* Generic Map helpers (JavaScript Map as a function over its present keys)

EmptyMap == [k \in {} |-> {}]

MapHas(m, k) == k \in DOMAIN m

MapSet(m, k, v) == [x \in (DOMAIN m) \cup {k} |-> IF x = k THEN v ELSE m[x]]

MapDelete(m, k) == [x \in (DOMAIN m) \ {k} |-> m[x]]

\* Set.add on an insertion-ordered Set: an element already present keeps its place
SetAdd(s, x) == IF \E i \in 1..Len(s) : s[i] = x THEN s ELSE Append(s, x)

\* Set.delete on an insertion-ordered Set
SetDelete(s, x) == SelectSeq(s, LAMBDA y : y # x)

IndexOf(s, x) == IF \E i \in 1..Len(s) : s[i] = x
                 THEN CHOOSE i \in 1..Len(s) : s[i] = x
                 ELSE 0

Range(s) == {s[i] : i \in 1..Len(s)}

-----------------------------------------------------------------------------
\* Loader: inputs

\* the module names of the host's configurations, and a remote whose module
\* exports no unmount()
HostNames == {"reactRemote", "reactOrange"}
LoaderNames == HostNames \cup {"noUnmount"}

\* config.remoteUrl of each name
remoteUrl(n) ==
    CASE n = "reactRemote" -> "http://localhost:5001/remoteEntry.js"
      [] n = "reactOrange" -> "http://localhost:5002/remoteEntry.js"
      [] OTHER             -> "http://localhost:5003/remoteEntry.js"

\* the functions the module of remote n exports
exports(n) == IF n = "noUnmount" THEN {"mount"} ELSE {"mount", "unmount"}

\* the validation of the exports, left out
ExportsUnchecked(n) == TRUE

\* module.mount and module.unmount are functions
ExportsValid(n) == {"mount", "unmount"} \subseteq exports(n)

\* the callers that may have a call in progress at the same time
Procs == {"p1", "p2"}

-----------------------------------------------------------------------------
\* Loader: operations

Idle == [op |-> "idle", pc |-> "idle", name |-> "", result |-> 0,
         overlap |-> {}, fetched |-> FALSE, ran |-> FALSE, inst |-> 0, trk |-> 0,
         fault |-> FALSE]

\* the points where load() is suspended at an await
LoadAwaits == {"awaitScript", "awaitInit", "awaitGet"}

\* the calls suspended inside load() for name n
InFlight(n) == {q \in Procs : procs[q].name = n /\ procs[q].pc \in LoadAwaits}

\* the cache test that opens load(), with the test left out
CacheNeverHits(cache, n) == FALSE

\* this.loadedMFEs.has(config.name)
CacheHit(cache, n) == MapHas(cache, n)

\* the bookkeeping below follows the calls made on the loader directly
Direct(op) == op = "load"

\* bookkeeping: one more source fetch or factory execution for n
CountExtra(cs, n, op) ==
    IF Direct(op) /\ MapHas(cs, n)
    THEN MapSet(cs, n, [cs[n] EXCEPT !.extra = @ + 1]) ELSE cs

\* bookkeeping: a load() of n is about to return ref
CountReturn(cs, n, ref, op) ==
    IF ~Direct(op) THEN cs
    ELSE IF MapHas(cs, n)
    THEN MapSet(cs, n, [cs[n] EXCEPT !.hits = @ + 1, !.other = @ \/ ref # cs[n].ref])
    ELSE MapSet(cs, n, [ref |-> ref, extra |-> 0, hits |-> 0, other |-> FALSE])

LoaderInitState ==
    /\ loadedMFEs = EmptyMap
    /\ loadedScripts = {}
    /\ scriptElements = EmptyMap
    /\ windowScopes = {}
    /\ nextRef = 0
    /\ procs = [q \in Procs |-> Idle]
    /\ nCalls = 0
    /\ seq = [n \in LoaderNames |-> TRUE]
    /\ cachedSince = EmptyMap

\* load(config) up to its first await, for a call of kind op made by caller p:
\* a cache hit returns the cached lifecycle; a miss starts loadScript unless the
\* URL is in loadedScripts, and otherwise goes on to the container
LoadBegin(p, n, op) ==
    /\ nCalls < MaxCalls
    /\ procs[p].pc \in {"idle", "resolved", "rejected"}
    /\ nCalls' = nCalls + 1
    /\ LET fresh == [Idle EXCEPT !.op = op, !.name = n]
           others == [q \in Procs |-> [procs[q] EXCEPT !.overlap = @ \ {p}]]
           Concurrent == IF Direct(op) THEN InFlight(n) \ {p} ELSE {}
       IN  IF CacheHit(loadedMFEs, n)
           THEN /\ procs' = [others EXCEPT ![p] =
                               [fresh EXCEPT !.pc = "loaded", !.result = loadedMFEs[n]]]
                /\ cachedSince' = CountReturn(cachedSince, n, loadedMFEs[n], op)
                /\ UNCHANGED seq
           ELSE /\ seq' = [seq EXCEPT ![n] = @ /\ (Direct(op) => InFlight(n) \ {p} = {})]
                /\ IF remoteUrl(n) \notin loadedScripts
                   THEN /\ procs' = [others EXCEPT ![p] =
                                       [fresh EXCEPT !.pc = "awaitScript",
                                                     !.fetched = Direct(op),
                                                     !.overlap = Concurrent]]
                        /\ cachedSince' = CountExtra(cachedSince, n, op)
                   ELSE /\ procs' = [others EXCEPT ![p] =
                                       [fresh EXCEPT !.pc = IF n \in windowScopes
                                                            THEN "awaitInit" ELSE "failed",
                                                     !.overlap = Concurrent]]
                        /\ UNCHANGED cachedSince
    /\ UNCHANGED <<loadedMFEs, loadedScripts, scriptElements, windowScopes, nextRef>>

\* script.onload: the remote entry ran (and defined its container when the remote
\* is configured), the element is tracked, loadScript resolves and load() goes on
\* to the container lookup and container.init
ScriptLoaded(p, defines) ==
    /\ procs[p].pc = "awaitScript"
    /\ LET n == procs[p].name
           scopes == IF defines THEN windowScopes \cup {n} ELSE windowScopes
       IN  /\ scriptElements' = MapSet(scriptElements, n, remoteUrl(n))
           /\ loadedScripts' = loadedScripts \cup {remoteUrl(n)}
           /\ windowScopes' = scopes
           /\ procs' = [procs EXCEPT ![p].pc = IF n \in scopes THEN "awaitInit" ELSE "failed"]
    /\ UNCHANGED <<loadedMFEs, nextRef, nCalls, seq, cachedSince>>

\* script.onerror: loadScript rejects
ScriptError(p) ==
    /\ procs[p].pc = "awaitScript"
    /\ procs' = [procs EXCEPT ![p].pc = "failed"]
    /\ UNCHANGED <<loadedMFEs, loadedScripts, scriptElements, windowScopes, nextRef,
                   nCalls, seq, cachedSince>>

\* container.init resolved: load() calls container.get
InitDone(p) ==
    /\ procs[p].pc = "awaitInit"
    /\ procs' = [procs EXCEPT ![p].pc = "awaitGet"]
    /\ UNCHANGED <<loadedMFEs, loadedScripts, scriptElements, windowScopes, nextRef,
                   nCalls, seq, cachedSince>>

\* container.get resolved: the factory runs, the exports are validated, a new
\* lifecycle object is built, cached and returned
GetDone(p) ==
    /\ procs[p].pc = "awaitGet"
    /\ LET n == procs[p].name
       IN  IF ExportsValid(n)
           THEN /\ nextRef' = nextRef + 1
                /\ loadedMFEs' = MapSet(loadedMFEs, n, nextRef + 1)
                /\ procs' = [procs EXCEPT ![p].pc = "loaded", ![p].ran = Direct(procs[p].op),
                                          ![p].result = nextRef + 1]
                /\ cachedSince' = CountReturn(CountExtra(cachedSince, n, procs[p].op),
                                              n, nextRef + 1, procs[p].op)
           ELSE /\ procs' = [procs EXCEPT ![p].pc = "failed", ![p].ran = Direct(procs[p].op)]
                /\ cachedSince' = CountExtra(cachedSince, n, procs[p].op)
                /\ UNCHANGED <<nextRef, loadedMFEs>>
    /\ UNCHANGED <<loadedScripts, scriptElements, windowScopes, nCalls, seq>>

\* a direct caller of loader.load() receives the lifecycle
LoadResolved(p) ==
    /\ procs[p].op = "load" /\ procs[p].pc = "loaded"
    /\ procs' = [procs EXCEPT ![p].pc = "resolved"]
    /\ UNCHANGED <<loadedMFEs, loadedScripts, scriptElements, windowScopes, nextRef,
                   nCalls, seq, cachedSince>>

\* a direct caller of loader.load() receives the rejection (the catch rethrows)
LoadRejected(p) ==
    /\ procs[p].op = "load" /\ procs[p].pc = "failed"
    /\ procs' = [procs EXCEPT ![p].pc = "rejected"]
    /\ UNCHANGED <<loadedMFEs, loadedScripts, scriptElements, windowScopes, nextRef,
                   nCalls, seq, cachedSince>>

\* body of unload(mfeName), clearing the whole cache
UnloadAll(cache, n) == EmptyMap

\* body of unload(mfeName)
unload(cache, n) == MapDelete(cache, n)

\* caller p makes a call that has no await in it: the call has returned when
\* the step ends
SyncCall(p, op, n) ==
    /\ nCalls < MaxCalls
    /\ procs[p].pc \in {"idle", "resolved", "rejected"}
    /\ nCalls' = nCalls + 1
    /\ procs' = [[q \in Procs |-> [procs[q] EXCEPT !.overlap = @ \ {p}]]
                      EXCEPT ![p] = [Idle EXCEPT !.op = op, !.name = n, !.pc = "resolved"]]

\* a direct call of loader.unload(n) by caller p that throws when n is not cached
UnloadStrict(p, n) ==
    /\ nCalls < MaxCalls
    /\ procs[p].pc \in {"idle", "resolved", "rejected"}
    /\ nCalls' = nCalls + 1
    /\ procs' = [[q \in Procs |-> [procs[q] EXCEPT !.overlap = @ \ {p}]]
                      EXCEPT ![p] = [Idle EXCEPT !.op = "unload", !.name = n,
                                                 !.pc = IF MapHas(loadedMFEs, n)
                                                        THEN "resolved" ELSE "rejected"]]
    /\ loadedMFEs' = MapDelete(loadedMFEs, n)
    /\ seq' = [seq EXCEPT ![n] = InFlight(n) = {}]
    /\ cachedSince' = MapDelete(cachedSince, n)
    /\ UNCHANGED <<loadedScripts, scriptElements, windowScopes, nextRef>>

\* a direct call of loader.unload(n) by caller p
Unload(p, n) ==
    /\ SyncCall(p, "unload", n)
    /\ loadedMFEs' = unload(loadedMFEs, n)
    /\ seq' = [seq EXCEPT ![n] = InFlight(n) = {}]
    /\ cachedSince' = MapDelete(cachedSince, n)
    /\ UNCHANGED <<loadedScripts, scriptElements, windowScopes, nextRef>>

\* loader.clearCache() called by p, leaving the set of loaded URLs as it is
ClearCacheKeepsScripts(p) ==
    /\ SyncCall(p, "clearCache", "")
    /\ loadedMFEs' = EmptyMap
    /\ scriptElements' = EmptyMap
    /\ seq' = [n \in LoaderNames |-> InFlight(n) = {}]
    /\ cachedSince' = EmptyMap
    /\ UNCHANGED <<loadedScripts, windowScopes, nextRef>>

\* loader.clearCache() called by p; the script elements are taken out of the
\* document, what the scripts defined on window stays
ClearCache(p) ==
    /\ SyncCall(p, "clearCache", "")
    /\ loadedMFEs' = EmptyMap
    /\ loadedScripts' = {}
    /\ scriptElements' = EmptyMap
    /\ seq' = [n \in LoaderNames |-> InFlight(n) = {}]
    /\ cachedSince' = EmptyMap
    /\ UNCHANGED <<windowScopes, nextRef>>

LoaderNext ==
    \/ \E p \in Procs, n \in LoaderNames : LoadBegin(p, n, "load") /\ UNCHANGED <<busVars, hostVars>>
    \/ \E p \in Procs, defines \in BOOLEAN : ScriptLoaded(p, defines) /\ UNCHANGED <<busVars, hostVars>>
    \/ \E p \in Procs : ScriptError(p) /\ UNCHANGED <<busVars, hostVars>>
    \/ \E p \in Procs : InitDone(p) /\ UNCHANGED <<busVars, hostVars>>
    \/ \E p \in Procs : GetDone(p) /\ UNCHANGED <<busVars, hostVars>>
    \/ \E p \in Procs : LoadResolved(p) /\ UNCHANGED <<busVars, hostVars>>
    \/ \E p \in Procs : LoadRejected(p) /\ UNCHANGED <<busVars, hostVars>>
    \/ \E p \in Procs, n \in LoaderNames : Unload(p, n) /\ UNCHANGED <<busVars, hostVars>>
    \/ \E p \in Procs : ClearCache(p) /\ UNCHANGED <<busVars, hostVars>>

-----------------------------------------------------------------------------
\* Telemetry tracker (MFETelemetry): its counters, the pending start time, the
\* mounted flag, how many mount and unmount durations it has recorded and what
\* they add up to, and its memory fields

\* new MFETelemetry(mfeName, instanceId); resets counts the reset() calls made
\* on the tracker; metrics holds <<metricType, number of the sample>>, recorded
\* counts the samples recorded since construction or the last reset()
NewTracker(n, id) ==
    [mfeName |-> n, instanceId |-> id, operations |-> 0, errors |-> 0,
     cycleCount |-> 0, isMounted |-> FALSE, mountStartTime |-> 0,
     mountTimes |-> 0, unmountTimes |-> 0, mountTimeSum |-> 0, unmountTimeSum |-> 0,
     memoryAtMount |-> 0, memoryAfterMount |-> 0, memoryAfterUnmount |-> 0,
     memoryPeak |-> 0, memoryBaseline |-> 0, memoryAfterUnmountHistory |-> <<>>,
     memoryRetained |-> 0, resets |-> 0, metrics |-> <<>>, recorded |-> 0]

\* performance.now() read by startMount and startUnmount: some time after the
\* time origin
Now == 1

\* getCurrentMemory() where window.performance.memory does not exist
NoMemoryApi == 0

Max(a, b) == IF a > b THEN a ELSE b

\* how many metrics a tracker keeps
MetricsKept == 1000

\* s.slice(-n)
SliceLast(s, n) == IF Len(s) <= n THEN s ELSE SubSeq(s, Len(s) - n + 1, Len(s))

\* recordMetric() that trims with slice(0, 1000)
RecordMetricKeepsOldest(t, type) ==
    LET pushed == Append(t.metrics, <<type, t.recorded + 1>>)
    IN  [t EXCEPT !.recorded = @ + 1,
                  !.metrics = IF Len(pushed) > MetricsKept
                              THEN SubSeq(pushed, 1, MetricsKept) ELSE pushed]

\* recordMetric(metric): push, then keep the last 1000
recordMetric(t, type) ==
    LET pushed == Append(t.metrics, <<type, t.recorded + 1>>)
    IN  [t EXCEPT !.recorded = @ + 1,
                  !.metrics = IF Len(pushed) > MetricsKept
                              THEN SliceLast(pushed, MetricsKept) ELSE pushed]

\* startMount(), with the baseline taken from every reading
StartMountAlwaysBaseline(t, mem) ==
    [t EXCEPT !.mountStartTime = Now, !.operations = @ + 1, !.memoryAtMount = mem,
              !.memoryBaseline = mem, !.isMounted = TRUE]

\* startMount(); mem is what getCurrentMemory() returns
startMount(t, mem) ==
    [t EXCEPT !.mountStartTime = Now, !.operations = @ + 1, !.memoryAtMount = mem,
              !.memoryBaseline = IF @ = 0 THEN mem ELSE @, !.isMounted = TRUE]

\* endMount(): nothing is recorded when no start time is pending
endMount(t, mem) ==
    IF t.mountStartTime = 0 THEN t
    ELSE recordMetric([t EXCEPT !.mountTimes = @ + 1,
                                !.mountTimeSum = @ + (Now - t.mountStartTime),
                                !.mountStartTime = 0,
                                !.memoryAfterMount = mem, !.memoryPeak = Max(@, mem)],
                      "mount")

startUnmount(t) ==
    [t EXCEPT !.mountStartTime = Now, !.cycleCount = @ + 1, !.isMounted = FALSE]

\* endUnmount(): nothing is recorded when no start time is pending
endUnmount(t, mem) ==
    IF t.mountStartTime = 0 THEN t
    ELSE recordMetric([t EXCEPT !.unmountTimes = @ + 1,
                                !.unmountTimeSum = @ + (Now - t.mountStartTime),
                                !.mountStartTime = 0,
                                !.memoryAfterUnmount = mem,
                                !.memoryAfterUnmountHistory = Append(@, mem),
                                !.memoryRetained = Max(0, mem - t.memoryBaseline)],
                      "unmount")

\* reset(): the lists, the counters and the memory fields are cleared; the
\* pending start time is not
reset(t) ==
    [t EXCEPT !.mountTimes = 0, !.unmountTimes = 0, !.mountTimeSum = 0,
              !.unmountTimeSum = 0, !.errors = 0, !.operations = 0,
              !.cycleCount = 0, !.memoryAtMount = 0, !.memoryAfterMount = 0,
              !.memoryAfterUnmount = 0, !.memoryPeak = 0, !.memoryBaseline = 0,
              !.memoryAfterUnmountHistory = <<>>, !.memoryRetained = 0,
              !.isMounted = FALSE, !.resets = @ + 1, !.metrics = <<>>, !.recorded = 0]

recordError(t) == recordMetric([t EXCEPT !.errors = @ + 1], "error")

\* recordMemory(); mem is what getCurrentMemory() returns
recordMemory(t, mem) == recordMetric([t EXCEPT !.memoryPeak = Max(@, mem)], "memory")

-----------------------------------------------------------------------------
\* Telemetry tracker: health check and leak detection. A quotient the code
\* computes with / is kept as the pair <<numerator, denominator>>.

KB == 1024
MB == 1024 * 1024

\* DEFAULT_THRESHOLDS.performance, in milliseconds
mountTimeWarning == 200
mountTimeCritical == 300
unmountTimeWarning == 100
unmountTimeCritical == 150

\* DEFAULT_THRESHOLDS.errors: 0.01, 0.05 and 0.10
errorsNormal == <<1, 100>>
errorsWarning == <<5, 100>>
errorsCritical == <<10, 100>>

\* q > r for two quotients with positive denominators
Exceeds(q, r) == q[1] * r[2] > r[1] * q[2]

\* array.reduce((a, b) => a + b, 0)
RECURSIVE SumOf(_)
SumOf(a) == IF a = <<>> THEN 0 ELSE a[1] + SumOf(Tail(a))

\* array.reduce((sum, y, x) => sum + x * y, 0), x being the index from 0
RECURSIVE SumXY(_)
SumXY(a) == IF a = <<>> THEN 0 ELSE SumXY(SubSeq(a, 1, Len(a) - 1)) + (Len(a) - 1) * a[Len(a)]

\* getErrorRate(), the test of operations left out
ErrorRateUnguarded(t) == <<t.errors, t.operations>>

\* getErrorRate()
getErrorRate(t) == IF t.operations > 0 THEN <<t.errors, t.operations>> ELSE <<0, 1>>

\* getAvgMountTime()
getAvgMountTime(t) == IF t.mountTimes = 0 THEN <<0, 1>> ELSE <<t.mountTimeSum, t.mountTimes>>

\* getAvgUnmountTime()
getAvgUnmountTime(t) ==
    IF t.unmountTimes = 0 THEN <<0, 1>> ELSE <<t.unmountTimeSum, t.unmountTimes>>

\* getMemoryTrend() with the sum of the squares taken as n(n-1)(2n+1)/6
MemoryTrendWrongSquares(t) ==
    LET h == t.memoryAfterUnmountHistory
        n == Len(h)
        xSum == (n * (n - 1)) \div 2
        xSquaredSum == (n * (n - 1) * (2 * n + 1)) \div 6
    IN  IF n < 2 THEN <<0, 1>>
        ELSE <<n * SumXY(h) - xSum * SumOf(h), n * xSquaredSum - xSum * xSum>>

\* getMemoryTrend(): the slope of the regression line through the post-unmount
\* readings, in bytes per cycle
getMemoryTrend(t) ==
    LET h == t.memoryAfterUnmountHistory
        n == Len(h)
        xSum == (n * (n - 1)) \div 2
        ySum == SumOf(h)
        xySum == SumXY(h)
        xSquaredSum == (n * (n - 1) * (2 * n - 1)) \div 6
    IN  IF n < 2 THEN <<0, 1>>
        ELSE <<n * xySum - xSum * ySum, n * xSquaredSum - xSum * xSum>>

\* hasMemoryLeak(), with the retained memory compared to 7MB
HasMemoryLeakWrongThreshold(t) ==
    Exceeds(getMemoryTrend(t), <<100 * KB, 1>>) \/ t.memoryRetained > 7 * MB

\* hasMemoryLeak()
hasMemoryLeak(t) ==
    Exceeds(getMemoryTrend(t), <<100 * KB, 1>>) \/ t.memoryRetained > 5 * MB

\* getLeakSeverity()
getLeakSeverity(t) ==
    LET trend == getMemoryTrend(t)
        trendKB == <<trend[1], trend[2] * KB>>
        retainedMB == <<t.memoryRetained, MB>>
    IN  IF ~hasMemoryLeak(t) THEN "none"
        ELSE IF Exceeds(trendKB, <<500, 1>>) \/ Exceeds(retainedMB, <<10, 1>>) THEN "severe"
        ELSE IF Exceeds(trendKB, <<250, 1>>) \/ Exceeds(retainedMB, <<7, 1>>) THEN "moderate"
        ELSE "minor"

\* the order array of getHealthCheck, the other way round
StatusOrderReversed == <<"healthy", "degraded", "unhealthy", "critical">>

\* const order = [CRITICAL, UNHEALTHY, DEGRADED, HEALTHY]
StatusOrder == <<"critical", "unhealthy", "degraded", "healthy">>

\* statuses.sort((a, b) => order.indexOf(a) - order.indexOf(b))[0]
FirstByOrder(statuses) ==
    CHOOSE a \in Range(statuses) :
        \A b \in Range(statuses) : IndexOf(StatusOrder, a) <= IndexOf(StatusOrder, b)

\* getHealthCheck() with UNHEALTHY reported for an error rate above the
\* warning threshold
HealthCheckUnhealthyOnWarning(t) ==
    LET errorRate == getErrorRate(t)
        severity == getLeakSeverity(t)
        memoryStatus ==
            IF ~hasMemoryLeak(t) THEN "healthy"
            ELSE IF severity = "severe" THEN "critical" ELSE "degraded"
        perfStatus ==
            IF Exceeds(getAvgMountTime(t), <<mountTimeCritical, 1>>)
               \/ Exceeds(getAvgUnmountTime(t), <<unmountTimeCritical, 1>>) THEN "critical"
            ELSE IF Exceeds(getAvgMountTime(t), <<mountTimeWarning, 1>>)
                    \/ Exceeds(getAvgUnmountTime(t), <<unmountTimeWarning, 1>>) THEN "degraded"
            ELSE "healthy"
        errorStatus ==
            IF Exceeds(errorRate, errorsCritical) THEN "critical"
            ELSE IF Exceeds(errorRate, errorsWarning) THEN "unhealthy"
            ELSE IF Exceeds(errorRate, errorsNormal) THEN "degraded"
            ELSE "healthy"
    IN  [status |-> FirstByOrder(<<memoryStatus, perfStatus, errorStatus>>),
         mfeName |-> t.mfeName, instanceId |-> t.instanceId,
         memory |-> memoryStatus, performance |-> perfStatus, errors |-> errorStatus,
         avgMountTime |-> getAvgMountTime(t), avgUnmountTime |-> getAvgUnmountTime(t),
         errorRate |-> errorRate]

\* getHealthCheck(): the three sub-checks and the overall status
getHealthCheck(t) ==
    LET avgMountTime == getAvgMountTime(t)
        avgUnmountTime == getAvgUnmountTime(t)
        errorRate == getErrorRate(t)
        severity == getLeakSeverity(t)
        memoryStatus ==
            IF ~hasMemoryLeak(t) THEN "healthy"
            ELSE IF severity = "severe" THEN "critical"
            ELSE IF severity \in {"moderate", "minor"} THEN "degraded"
            ELSE "healthy"
        perfStatus ==
            IF Exceeds(avgMountTime, <<mountTimeCritical, 1>>)
               \/ Exceeds(avgUnmountTime, <<unmountTimeCritical, 1>>) THEN "critical"
            ELSE IF Exceeds(avgMountTime, <<mountTimeWarning, 1>>)
                    \/ Exceeds(avgUnmountTime, <<unmountTimeWarning, 1>>) THEN "degraded"
            ELSE "healthy"
        errorStatus ==
            IF Exceeds(errorRate, errorsCritical) THEN "critical"
            ELSE IF Exceeds(errorRate, errorsWarning) THEN "degraded"
            ELSE IF Exceeds(errorRate, errorsNormal) THEN "degraded"
            ELSE "healthy"
    IN  [status |-> FirstByOrder(<<memoryStatus, perfStatus, errorStatus>>),
         mfeName |-> t.mfeName, instanceId |-> t.instanceId,
         memory |-> memoryStatus, performance |-> perfStatus, errors |-> errorStatus,
         avgMountTime |-> avgMountTime, avgUnmountTime |-> avgUnmountTime,
         errorRate |-> errorRate]

\* getSummary(): what it reports of the health check and of the leak detection
getSummary(t) ==
    [status |-> getHealthCheck(t).status, errorRate |-> getErrorRate(t),
     avgMountTime |-> getAvgMountTime(t), avgUnmountTime |-> getAvgUnmountTime(t),
     retained |-> t.memoryRetained, trend |-> getMemoryTrend(t),
     hasLeak |-> hasMemoryLeak(t), leakSeverity |-> getLeakSeverity(t),
     health |-> getHealthCheck(t)]

-----------------------------------------------------------------------------
\* Host: MFELoaderService with the two React remotes, in a browser without
\* window.performance.memory

\* which bootstrap a module name is served by
Prefix(n) == IF n = "reactOrange" THEN "react-orange" ELSE "react-pink"

\* react-orange obtains its tracker from getOrCreatePersistentTelemetry,
\* react-remote constructs one per mount
UsesPersistentTelemetry(n) == n = "reactOrange"

Null == 0

InstanceIds == 1..Len(instances)

\* `${prefix}-${Date.now()}-${Math.random()...}`: a string no earlier mount
\* built, or (same millisecond, same random draw) one an earlier mount of the
\* same bootstrap built
FreshId(prefix) == <<prefix, 1 + Len(idsDrawn)>>

IdChoices(prefix) ==
    {FreshId(prefix)} \cup {idsDrawn[k] : k \in {j \in 1..Len(idsDrawn) : idsDrawn[j][1] = prefix}}

\* what may throw inside a mount() or unmount() call: nothing, React
\* (createRoot/render, root.unmount), or the telemetry call that opens the phase
\* (startMount, startUnmount)
Failures == {"none", "react", "telemetry"}

\* the slot of a loadMFE or unloadMFE call that has returned
Returned(outcome) == [Idle EXCEPT !.pc = outcome]

HostInitState ==
    /\ loadedInstances = EmptyMap
    /\ lifecycleCache = EmptyMap
    /\ instances = <<>>
    /\ trackers = EmptyMap
    /\ telemetry = EmptyMap
    /\ telemetryByMfeName = EmptyMap
    /\ containerDom = 0
    /\ busSubscribers = {}
    /\ idsDrawn = <<>>

\* App's effect cleanup, with the unsubscribe call left out
CleanupKeepsSubscription(subs, i) == subs

\* the cleanup of App's effect: unsubscribe()
AppEffectCleanup(subs, i) == subs \ {i}

\* App's effect runs once React has committed the render of a mounted root: it
\* subscribes to the host event bus
AppEffect(i) ==
    /\ i \in InstanceIds
    /\ instances[i].rootMounted /\ ~instances[i].subscribed
    /\ instances' = [instances EXCEPT ![i].subscribed = TRUE]
    /\ busSubscribers' = busSubscribers \cup {i}
    /\ UNCHANGED <<loadedInstances, lifecycleCache, trackers, telemetry,
                   telemetryByMfeName, containerDom, idsDrawn>>
    /\ UNCHANGED loaderVars

\* loadMFE after loader.load resolved: the lifecycle is cached and
\* lifecycle.mount(container, context) runs to its end (mount has no await);
\* fail says what threw, id is the instance id built
LoadMFEMount(p, fail, id) ==
    /\ procs[p].op = "loadMFE" /\ procs[p].pc = "loaded"
    /\ LET n == procs[p].name
           i == Len(instances) + 1
           reuse == UsesPersistentTelemetry(n) /\ MapHas(telemetryByMfeName, n)
           tk == IF reuse THEN telemetryByMfeName[n] ELSE Len(idsDrawn) + 1
           made == IF reuse THEN trackers ELSE MapSet(trackers, tk, NewTracker(n, id))
           started == MapSet(made, tk, startMount(made[tk], NoMemoryApi))
       IN  /\ id \in IdChoices(Prefix(n))
           /\ idsDrawn' = Append(idsDrawn, id)
           /\ lifecycleCache' = MapSet(lifecycleCache, n, procs[p].result)
           /\ telemetryByMfeName' = IF UsesPersistentTelemetry(n)
                                    THEN MapSet(telemetryByMfeName, n, tk)
                                    ELSE telemetryByMfeName
           /\ telemetry' = MapSet(telemetry, id, tk)
           /\ CASE fail = "telemetry" ->
                   \* startMount() throws, outside the try
                   /\ trackers' = made
                   /\ procs' = [procs EXCEPT ![p].pc = "mountFailed", ![p].fault = TRUE]
                   /\ UNCHANGED <<instances, containerDom>>
                [] fail = "react" ->
                   /\ trackers' = MapSet(started, tk, recordError(started[tk]))
                   /\ containerDom' = 0
                   /\ procs' = [procs EXCEPT ![p].pc = "mountFailed"]
                   /\ UNCHANGED instances
                [] OTHER ->
                   /\ trackers' = MapSet(started, tk, endMount(started[tk], NoMemoryApi))
                   /\ containerDom' = i
                   /\ instances' = Append(instances,
                          [id |-> id, mfeName |-> n, root |-> TRUE, container |-> TRUE,
                           telemetry |-> tk, rootMounted |-> TRUE, subscribed |-> FALSE,
                           unmounted |-> FALSE])
                   /\ procs' = [procs EXCEPT ![p].pc = "awaitMount", ![p].inst = i]
    /\ UNCHANGED <<loadedInstances, busSubscribers>>
    /\ UNCHANGED <<loadedMFEs, loadedScripts, scriptElements, windowScopes, nextRef,
                   nCalls, seq, cachedSince>>

\* loadMFE after lifecycle.mount resolved: the instance is recorded and returned
LoadMFEDone(p) ==
    /\ procs[p].op = "loadMFE" /\ procs[p].pc = "awaitMount"
    /\ loadedInstances' = MapSet(loadedInstances, procs[p].name, procs[p].inst)
    /\ procs' = [procs EXCEPT ![p] = Returned("resolved")]
    /\ UNCHANGED <<lifecycleCache, instances, trackers, telemetry, telemetryByMfeName,
                   containerDom, busSubscribers, idsDrawn>>
    /\ UNCHANGED <<loadedMFEs, loadedScripts, scriptElements, windowScopes, nextRef,
                   nCalls, seq, cachedSince>>

\* loadMFE's catch: load or mount rejected, the error is logged and rethrown
LoadMFEFailed(p) ==
    /\ procs[p].op = "loadMFE" /\ procs[p].pc \in {"failed", "mountFailed"}
    /\ procs' = [procs EXCEPT ![p] = Returned("rejected")]
    /\ UNCHANGED hostVars
    /\ UNCHANGED <<loadedMFEs, loadedScripts, scriptElements, windowScopes, nextRef,
                   nCalls, seq, cachedSince>>

\* the rest of unmount(instance), with the tracker reference of the instance
\* left in place
UnmountRestKeepsTracker(insts, trks, reg, dom, i, tk, hadContainer) ==
    [instances |-> [insts EXCEPT ![i].root = FALSE, ![i].container = FALSE,
                                 ![i].unmounted = TRUE],
     trackers |-> MapSet(trks, tk, endUnmount(trks[tk], NoMemoryApi)),
     telemetry |-> MapDelete(reg, insts[i].id),
     containerDom |-> IF hadContainer THEN 0 ELSE dom]

\* the rest of unmount(instance), with the unregister call left out
UnmountRestKeepsEntry(insts, trks, reg, dom, i, tk, hadContainer) ==
    [instances |-> [insts EXCEPT ![i].root = FALSE, ![i].container = FALSE,
                                 ![i].telemetry = Null, ![i].unmounted = TRUE],
     trackers |-> MapSet(trks, tk, endUnmount(trks[tk], NoMemoryApi)),
     telemetry |-> reg,
     containerDom |-> IF hadContainer THEN 0 ELSE dom]

\* the rest of unmount(instance) after the root is gone: the captured container
\* (when not null) is cleared, the instance's references are nulled, endUnmount
\* runs on the captured tracker and the instance id is unregistered
UnmountRest(insts, trks, reg, dom, i, tk, hadContainer) ==
    [instances |-> [insts EXCEPT ![i].root = FALSE, ![i].container = FALSE,
                                 ![i].telemetry = Null, ![i].unmounted = TRUE],
     trackers |-> MapSet(trks, tk, endUnmount(trks[tk], NoMemoryApi)),
     telemetry |-> MapDelete(reg, insts[i].id),
     containerDom |-> IF hadContainer THEN 0 ELSE dom]

\* root.unmount(): React tears the tree down (and runs the cleanup of App's
\* effect when the effect has run)
RootUnmount(insts, i) == [insts EXCEPT ![i].rootMounted = FALSE]

\* unloadMFE(mfeName) up to its first await: early return when the instance or
\* the lifecycle is not recorded, otherwise lifecycle.unmount(instance) runs up
\* to the timer it awaits (or to its end when the instance has no root);
\* fail says what threw
UnloadMFEBegin(p, n, fail) ==
    /\ nCalls < MaxCalls
    /\ procs[p].pc \in {"idle", "resolved", "rejected"}
    /\ nCalls' = nCalls + 1
    /\ LET fresh == [Idle EXCEPT !.op = "unloadMFE", !.name = n]
           others == [q \in Procs |-> [procs[q] EXCEPT !.overlap = @ \ {p}]]
       IN  IF ~MapHas(loadedInstances, n) \/ ~MapHas(lifecycleCache, n)
           THEN /\ procs' = [others EXCEPT ![p] = Returned("resolved")]
                /\ UNCHANGED hostVars
           ELSE LET i == loadedInstances[n]
                    tk == instances[i].telemetry
                IN  IF tk = Null
                    THEN \* telemetry.startUnmount() on null: TypeError before the try
                         /\ procs' = [others EXCEPT ![p] =
                                        [fresh EXCEPT !.pc = "typeError", !.inst = i]]
                         /\ UNCHANGED hostVars
                    ELSE IF fail = "telemetry"
                    THEN \* startUnmount() throws, outside the try
                         /\ procs' = [others EXCEPT ![p] =
                                        [fresh EXCEPT !.pc = "unmountFailed", !.inst = i,
                                                      !.fault = TRUE]]
                         /\ UNCHANGED hostVars
                    ELSE LET started == MapSet(trackers, tk, startUnmount(trackers[tk]))
                         IN  IF instances[i].root
                             THEN IF fail = "react"
                                  THEN /\ trackers' = MapSet(started, tk, recordError(started[tk]))
                                       /\ procs' = [others EXCEPT ![p] =
                                              [fresh EXCEPT !.pc = "unmountFailed", !.inst = i]]
                                       /\ UNCHANGED <<loadedInstances, lifecycleCache, instances,
                                                      telemetry, telemetryByMfeName,
                                                      containerDom, busSubscribers, idsDrawn>>
                                  ELSE /\ trackers' = started
                                       /\ instances' = RootUnmount(instances, i)
                                       /\ busSubscribers' =
                                              IF instances[i].subscribed
                                              THEN AppEffectCleanup(busSubscribers, i)
                                              ELSE busSubscribers
                                       /\ containerDom' = IF containerDom = i THEN 0 ELSE containerDom
                                       /\ procs' = [others EXCEPT ![p] =
                                              [fresh EXCEPT !.pc = "unmountTimer", !.inst = i,
                                                            !.trk = tk]]
                                       /\ UNCHANGED <<loadedInstances, lifecycleCache, telemetry,
                                                      telemetryByMfeName, idsDrawn>>
                             ELSE LET r == UnmountRest(instances, started, telemetry,
                                                       containerDom, i, tk, instances[i].container)
                                  IN  /\ instances' = r.instances
                                      /\ trackers' = r.trackers
                                      /\ telemetry' = r.telemetry
                                      /\ containerDom' = r.containerDom
                                      /\ procs' = [others EXCEPT ![p] =
                                             [fresh EXCEPT !.pc = "awaitUnmount", !.inst = i,
                                                           !.trk = tk]]
                                      /\ UNCHANGED <<loadedInstances, lifecycleCache,
                                                     telemetryByMfeName, busSubscribers, idsDrawn>>
    /\ UNCHANGED <<loadedMFEs, loadedScripts, scriptElements, windowScopes, nextRef,
                   seq, cachedSince>>

\* the timer unmount() awaits after root.unmount() fires: the rest of unmount runs
UnmountTimer(p) ==
    /\ procs[p].pc = "unmountTimer"
    /\ LET r == UnmountRest(instances, trackers, telemetry, containerDom,
                            procs[p].inst, procs[p].trk, TRUE)
       IN  /\ instances' = r.instances
           /\ trackers' = r.trackers
           /\ telemetry' = r.telemetry
           /\ containerDom' = r.containerDom
    /\ procs' = [procs EXCEPT ![p].pc = "awaitUnmount"]
    /\ UNCHANGED <<loadedInstances, lifecycleCache, telemetryByMfeName, busSubscribers, idsDrawn>>
    /\ UNCHANGED <<loadedMFEs, loadedScripts, scriptElements, windowScopes, nextRef,
                   nCalls, seq, cachedSince>>

\* unloadMFE after lifecycle.unmount resolved: both caches drop the name and
\* loader.unload(mfeName) is called
UnloadMFEAfterUnmount(p) ==
    /\ procs[p].op = "unloadMFE" /\ procs[p].pc = "awaitUnmount"
    /\ loadedInstances' = MapDelete(loadedInstances, procs[p].name)
    /\ lifecycleCache' = MapDelete(lifecycleCache, procs[p].name)
    /\ loadedMFEs' = unload(loadedMFEs, procs[p].name)
    /\ procs' = [procs EXCEPT ![p].pc = "awaitUnload"]
    /\ UNCHANGED <<instances, trackers, telemetry, telemetryByMfeName, containerDom,
                   busSubscribers, idsDrawn>>
    /\ UNCHANGED <<loadedScripts, scriptElements, windowScopes, nextRef, nCalls,
                   seq, cachedSince>>

\* unloadMFE after loader.unload resolved
UnloadMFEDone(p) ==
    /\ procs[p].op = "unloadMFE" /\ procs[p].pc = "awaitUnload"
    /\ procs' = [procs EXCEPT ![p] = Returned("resolved")]
    /\ UNCHANGED hostVars
    /\ UNCHANGED <<loadedMFEs, loadedScripts, scriptElements, windowScopes, nextRef,
                   nCalls, seq, cachedSince>>

\* unloadMFE with the cleanup of the caches moved to where it also runs after a
\* rejected unmount
UnloadMFEFailedDropsEntry(p) ==
    /\ procs[p].op = "unloadMFE" /\ procs[p].pc \in {"typeError", "unmountFailed"}
    /\ procs' = [procs EXCEPT ![p] = Returned("rejected")]
    /\ loadedInstances' = MapDelete(loadedInstances, procs[p].name)
    /\ lifecycleCache' = MapDelete(lifecycleCache, procs[p].name)
    /\ UNCHANGED <<instances, trackers, telemetry, telemetryByMfeName, containerDom,
                   busSubscribers, idsDrawn>>
    /\ UNCHANGED <<loadedMFEs, loadedScripts, scriptElements, windowScopes, nextRef,
                   nCalls, seq, cachedSince>>

\* unloadMFE's catch: lifecycle.unmount rejected, the error is logged and rethrown
UnloadMFEFailed(p) ==
    /\ procs[p].op = "unloadMFE" /\ procs[p].pc \in {"typeError", "unmountFailed"}
    /\ procs' = [procs EXCEPT ![p] = Returned("rejected")]
    /\ UNCHANGED hostVars
    /\ UNCHANGED <<loadedMFEs, loadedScripts, scriptElements, windowScopes, nextRef,
                   nCalls, seq, cachedSince>>

HostNext ==
    \/ \E p \in Procs, n \in HostNames :
          LoadBegin(p, n, "loadMFE") /\ UNCHANGED <<busVars, hostVars>>
    \/ \E p \in Procs, defines \in BOOLEAN :
          ScriptLoaded(p, defines) /\ UNCHANGED <<busVars, hostVars>>
    \/ \E p \in Procs : ScriptError(p) /\ UNCHANGED <<busVars, hostVars>>
    \/ \E p \in Procs : InitDone(p) /\ UNCHANGED <<busVars, hostVars>>
    \/ \E p \in Procs : GetDone(p) /\ UNCHANGED <<busVars, hostVars>>
    \/ \E p \in Procs, fail \in Failures :
          \E id \in IdChoices(Prefix(procs[p].name)) :
              LoadMFEMount(p, fail, id) /\ UNCHANGED busVars
    \/ \E p \in Procs : LoadMFEDone(p) /\ UNCHANGED busVars
    \/ \E p \in Procs : LoadMFEFailed(p) /\ UNCHANGED busVars
    \/ \E i \in 1..MaxCalls : AppEffect(i) /\ UNCHANGED busVars
    \/ \E p \in Procs, n \in HostNames, fail \in Failures :
          UnloadMFEBegin(p, n, fail) /\ UNCHANGED busVars
    \/ \E p \in Procs : UnmountTimer(p) /\ UNCHANGED busVars
    \/ \E p \in Procs : UnloadMFEAfterUnmount(p) /\ UNCHANGED busVars
    \/ \E p \in Procs : UnloadMFEDone(p) /\ UNCHANGED busVars
    \/ \E p \in Procs : UnloadMFEFailed(p) /\ UNCHANGED busVars

-----------------------------------------------------------------------------
\* Telemetry registry and trackers, called directly

\* the instance ids the registry is called with
RegistryIds == {<<"react-orange", 1>>, <<"react-orange", 2>>}

\* what getCurrentMemory() may return
Readings == {0, 1, 2}

\* one more call on the registry or on a tracker; nothing else moves
TelemetryCall ==
    /\ nCalls < MaxTrackerCalls
    /\ nCalls' = nCalls + 1
    /\ UNCHANGED <<loadedInstances, lifecycleCache, instances, containerDom,
                   busSubscribers, idsDrawn>>
    /\ UNCHANGED <<loadedMFEs, loadedScripts, scriptElements, windowScopes, nextRef,
                   seq, cachedSince>>

\* a call that returns nothing leaves the caller with what it holds
NothingReturned == UNCHANGED procs

\* getOrCreatePersistentTelemetry(mfeName, instanceId): the tracker kept under
\* the name, or a new one that is then kept under the name; the caller p1
\* receives it
GetOrCreatePersistentTelemetry(n, id) ==
    /\ TelemetryCall
    /\ LET has == MapHas(telemetryByMfeName, n)
           k == IF has THEN telemetryByMfeName[n] ELSE Cardinality(DOMAIN trackers) + 1
       IN  /\ trackers' = IF has THEN trackers ELSE MapSet(trackers, k, NewTracker(n, id))
           /\ telemetryByMfeName' = IF has THEN telemetryByMfeName
                                    ELSE MapSet(telemetryByMfeName, n, k)
           /\ procs' = [[q \in Procs |-> Idle] EXCEPT
                           !["p1"] = [Idle EXCEPT !.op = "getOrCreatePersistentTelemetry",
                                                  !.pc = "resolved", !.name = n,
                                                  !.result = k]]
    /\ UNCHANGED telemetry

\* register(instanceId, telemetry)
Register(id, k) ==
    /\ TelemetryCall
    /\ MapHas(trackers, k)
    /\ telemetry' = MapSet(telemetry, id, k)
    /\ NothingReturned
    /\ UNCHANGED <<trackers, telemetryByMfeName>>

\* unregister(instanceId), dropping also the per-name entry of the tracker
UnregisterDropsSeries(id) ==
    /\ TelemetryCall
    /\ telemetry' = MapDelete(telemetry, id)
    /\ telemetryByMfeName' =
           [n \in {m \in DOMAIN telemetryByMfeName :
                       ~(MapHas(telemetry, id) /\ telemetryByMfeName[m] = telemetry[id])}
               |-> telemetryByMfeName[n]]
    /\ NothingReturned
    /\ UNCHANGED trackers

\* unregister(instanceId)
Unregister(id) ==
    /\ TelemetryCall
    /\ telemetry' = MapDelete(telemetry, id)
    /\ NothingReturned
    /\ UNCHANGED <<trackers, telemetryByMfeName>>

\* the keys of the map reg in the order its values are listed
KeyOrder(reg) ==
    CHOOSE s \in [1..Cardinality(DOMAIN reg) -> DOMAIN reg] :
        \A a, b \in 1..Cardinality(DOMAIN reg) : a # b => s[a] # s[b]

\* this.telemetry.values() handed out as it is: an iterator over the map
ValuesIterator(reg) == [view |-> "iterator", list |-> <<>>]

\* getAll(): Array.from(this.telemetry.values()), a new array of the trackers
\* registered at the time of the call
getAll(reg) ==
    [view |-> "array", list |-> [i \in 1..Cardinality(DOMAIN reg) |-> reg[KeyOrder(reg)[i]]]]

\* the trackers a reader finds in what getAll() returned when the registry is reg
Elements(all, reg) ==
    IF all.view = "array" THEN all.list
    ELSE [i \in 1..Cardinality(DOMAIN reg) |-> reg[KeyOrder(reg)[i]]]

\* getAllHealthChecks(): this.getAll().map(t => t.getHealthCheck())
getAllHealthChecks(reg, trks) ==
    LET all == Elements(getAll(reg), reg)
    IN  [i \in 1..Len(all) |-> getHealthCheck(trks[all[i]])]

\* the overall health taken over every tracker there is, registered or not
OverallHealthOfEveryTracker(reg, trks) ==
    IF DOMAIN trks = {} THEN "healthy"
    ELSE FirstByOrder([k \in 1..Cardinality(DOMAIN trks) |-> getHealthCheck(trks[k]).status])

\* getOverallHealth(): the first of the statuses of the health checks in the
\* order array, HEALTHY when there is no check
getOverallHealth(reg, trks) ==
    LET checks == getAllHealthChecks(reg, trks)
    IN  IF Len(checks) = 0 THEN "healthy"
        ELSE FirstByOrder([i \in 1..Len(checks) |-> checks[i].status])

\* a call on the registry that changes nothing and returns r to the caller p1
RegistryQuery(op, r) ==
    /\ TelemetryCall
    /\ procs' = [procs EXCEPT !["p1"] = [Idle EXCEPT !.op = op, !.pc = "resolved",
                                                     !.result = r]]
    /\ UNCHANGED <<trackers, telemetry, telemetryByMfeName>>

GetAll == RegistryQuery("getAll", getAll(telemetry))

GetOverallHealth == RegistryQuery("getOverallHealth", getOverallHealth(telemetry, trackers))

\* a call on tracker k that turns it into t
TrackerCall(k, t) ==
    /\ TelemetryCall
    /\ trackers' = MapSet(trackers, k, t)
    /\ NothingReturned
    /\ UNCHANGED <<telemetry, telemetryByMfeName>>

StartMount(k, mem) == MapHas(trackers, k) /\ TrackerCall(k, startMount(trackers[k], mem))
EndMount(k, mem) == MapHas(trackers, k) /\ TrackerCall(k, endMount(trackers[k], mem))
StartUnmount(k) == MapHas(trackers, k) /\ TrackerCall(k, startUnmount(trackers[k]))
EndUnmount(k, mem) == MapHas(trackers, k) /\ TrackerCall(k, endUnmount(trackers[k], mem))
RecordError(k) == MapHas(trackers, k) /\ TrackerCall(k, recordError(trackers[k]))
Reset(k) == MapHas(trackers, k) /\ TrackerCall(k, reset(trackers[k]))

RecordMemory(k, mem) == MapHas(trackers, k) /\ TrackerCall(k, recordMemory(trackers[k], mem))

\* the trackers there can be: one per module name
TrackerKeys == 1..Cardinality(HostNames)

TelemetryNext ==
    \/ \E n \in HostNames, id \in RegistryIds :
          GetOrCreatePersistentTelemetry(n, id) /\ UNCHANGED busVars
    \/ \E id \in RegistryIds, k \in TrackerKeys : Register(id, k) /\ UNCHANGED busVars
    \/ \E id \in RegistryIds : Unregister(id) /\ UNCHANGED busVars
    \/ \E k \in TrackerKeys, mem \in Readings : StartMount(k, mem) /\ UNCHANGED busVars
    \/ \E k \in TrackerKeys, mem \in Readings : EndMount(k, mem) /\ UNCHANGED busVars
    \/ \E k \in TrackerKeys : StartUnmount(k) /\ UNCHANGED busVars
    \/ \E k \in TrackerKeys, mem \in Readings : EndUnmount(k, mem) /\ UNCHANGED busVars
    \/ \E k \in TrackerKeys : RecordError(k) /\ UNCHANGED busVars
    \/ \E k \in TrackerKeys : Reset(k) /\ UNCHANGED busVars

-----------------------------------------------------------------------------
\* Health check of one tracker, over the conditions a tracker can have been
\* brought into

\* post-unmount readings a tracker is given, before the offset: around the
\* slope thresholds of the leak detection
SeriesValues == {0, 100 * KB, 100 * KB + 1, 250 * KB, 250 * KB + 1, 500 * KB, 500 * KB + 1}

\* how many post-unmount readings a tracker is given
MaxSeriesLen == 3

\* what all readings of a series lie above: around the retained-memory
\* thresholds
Offsets == {0, 5 * MB, 7 * MB, 10 * MB}

\* the reading of the first startMount
Baselines == {0, 100 * KB}

\* cycles of the series that grows by the same amount every cycle, the amount,
\* and the readings it starts from
TestCycles == 10
GrowthPerCycle == 200 * KB
Starts == {0, 1, 7 * KB + 3, MB}

SeqsUpTo(S, n) == UNION {[1..m -> S] : m \in 0..n}

\* <<errors, operations>>: recordError() calls and startMount() calls made
ErrorSamples ==
    {<<0, 0>>, <<1, 0>>, <<0, 1>>, <<1, 100>>, <<2, 100>>, <<5, 100>>, <<6, 100>>,
     <<10, 100>>, <<11, 100>>}

\* one of them for each status of the error sub-check
ErrorBasic == {<<0, 0>>, <<2, 100>>, <<11, 100>>}

\* <<number of durations recorded, their sum>> of the mounts and of the unmounts
MountSamples == {<<0, 0>>, <<1, 200>>, <<2, 401>>, <<1, 300>>, <<2, 601>>}
UnmountSamples == {<<0, 0>>, <<1, 100>>, <<2, 201>>, <<1, 150>>, <<2, 301>>}

\* pairs of them for each status of the performance sub-check
PerfBasic == {<<<<0, 0>>, <<0, 0>>>>, <<<<2, 401>>, <<1, 100>>>>, <<<<1, 200>>, <<2, 301>>>>}

\* a tracker after endUnmount() calls with the readings h, the first
\* startMount() having read b, with the error and duration records given
Sampled(h, b, err, perf) ==
    [NewTracker("reactRemote", <<"react-pink", 1>>) EXCEPT
        !.memoryAfterUnmountHistory = h,
        !.memoryBaseline = b,
        !.memoryAfterUnmount = IF h = <<>> THEN 0 ELSE h[Len(h)],
        !.memoryRetained = IF h = <<>> THEN 0 ELSE Max(0, h[Len(h)] - b),
        !.errors = err[1], !.operations = err[2],
        !.mountTimes = perf[1][1], !.mountTimeSum = perf[1][2],
        !.unmountTimes = perf[2][1], !.unmountTimeSum = perf[2][2]]

\* the series s raised by the offset o
Raised(s, o) == [i \in 1..Len(s) |-> o + s[i]]

\* the series that starts at a and grows by GrowthPerCycle every cycle
Growing(a) == [i \in 1..TestCycles |-> a + (i - 1) * GrowthPerCycle]

\* one registered tracker: with any short series, with any error and duration
\* records, or with the growing series
HealthInitState ==
    /\ loadedInstances = EmptyMap
    /\ lifecycleCache = EmptyMap
    /\ instances = <<>>
    /\ \/ \E s \in SeqsUpTo(SeriesValues, MaxSeriesLen), o \in Offsets, b \in Baselines,
             err \in ErrorBasic, perf \in PerfBasic :
             trackers = MapSet(EmptyMap, 1, Sampled(Raised(s, o), b, err, perf))
       \/ \E s \in SeqsUpTo(SeriesValues, 1), o \in Offsets, b \in Baselines,
             err \in ErrorSamples, m \in MountSamples, u \in UnmountSamples :
             trackers = MapSet(EmptyMap, 1, Sampled(Raised(s, o), b, err, <<m, u>>))
       \/ \E a \in Starts, b \in Baselines, err \in ErrorBasic, perf \in PerfBasic :
             trackers = MapSet(EmptyMap, 1, Sampled(Growing(a), b, err, perf))
    /\ telemetry = MapSet(EmptyMap, <<"react-pink", 1>>, 1)
    /\ telemetryByMfeName = EmptyMap
    /\ containerDom = 0
    /\ busSubscribers = {}
    /\ idsDrawn = <<>>

\* how many recordMemory() calls a tracker has seen before the calls checked
RecordedBefore == {0, MetricsKept - 2, MetricsKept - 1, MetricsKept}

\* a new tracker after m recordMemory() calls that read 0, m being no more
\* than the tracker keeps
AfterRecordMemory(m) ==
    [NewTracker("reactRemote", <<"react-pink", 1>>) EXCEPT
        !.metrics = [i \in 1..m |-> <<"memory", i>>], !.recorded = m]

\* one tracker that has recorded memory samples, in a browser without
\* window.performance.memory
MetricsInitState ==
    /\ loadedInstances = EmptyMap
    /\ lifecycleCache = EmptyMap
    /\ instances = <<>>
    /\ \E m \in RecordedBefore : trackers = MapSet(EmptyMap, 1, AfterRecordMemory(m))
    /\ telemetry = MapSet(EmptyMap, <<"react-pink", 1>>, 1)
    /\ telemetryByMfeName = EmptyMap
    /\ containerDom = 0
    /\ busSubscribers = {}
    /\ idsDrawn = <<>>

MetricsNext ==
    \/ \E k \in TrackerKeys, mem \in {NoMemoryApi} : StartMount(k, mem) /\ UNCHANGED busVars
    \/ \E k \in TrackerKeys, mem \in {NoMemoryApi} : EndMount(k, mem) /\ UNCHANGED busVars
    \/ \E k \in TrackerKeys : StartUnmount(k) /\ UNCHANGED busVars
    \/ \E k \in TrackerKeys, mem \in {NoMemoryApi} : EndUnmount(k, mem) /\ UNCHANGED busVars
    \/ \E k \in TrackerKeys : RecordError(k) /\ UNCHANGED busVars
    \/ \E k \in TrackerKeys, mem \in {NoMemoryApi} : RecordMemory(k, mem) /\ UNCHANGED busVars
    \/ \E k \in TrackerKeys : Reset(k) /\ UNCHANGED busVars

\* two trackers with any error and duration records, each registered under
\* its instance id
RegistryInitState ==
    /\ loadedInstances = EmptyMap
    /\ lifecycleCache = EmptyMap
    /\ instances = <<>>
    /\ \E e1, e2 \in ErrorBasic, f1, f2 \in PerfBasic :
          trackers = MapSet(MapSet(EmptyMap, 1, Sampled(<<>>, 0, e1, f1)),
                            2, Sampled(<<>>, 0, e2, f2))
    /\ \E ids \in [TrackerKeys -> RegistryIds] :
          /\ \A a, b \in TrackerKeys : a # b => ids[a] # ids[b]
          /\ telemetry = [id \in RegistryIds |-> CHOOSE k \in TrackerKeys : ids[k] = id]
    /\ telemetryByMfeName = EmptyMap
    /\ containerDom = 0
    /\ busSubscribers = {}
    /\ idsDrawn = <<>>

RegistryNext ==
    \/ \E id \in RegistryIds, k \in TrackerKeys : Register(id, k) /\ UNCHANGED busVars
    \/ \E id \in RegistryIds : Unregister(id) /\ UNCHANGED busVars
    \/ \E k \in TrackerKeys : Reset(k) /\ UNCHANGED busVars
    \/ GetAll /\ UNCHANGED busVars
    \/ GetOverallHealth /\ UNCHANGED busVars

\* a call on tracker k that changes nothing and returns r to the caller p1
Query(op, k, r) ==
    /\ TelemetryCall
    /\ MapHas(trackers, k)
    /\ procs["p1"].op = "idle"
    /\ procs' = [procs EXCEPT !["p1"] = [Idle EXCEPT !.op = op, !.pc = "resolved",
                                                     !.trk = k, !.result = r]]
    /\ UNCHANGED <<trackers, telemetry, telemetryByMfeName>>

GetHealthCheck(k) == Query("getHealthCheck", k, getHealthCheck(trackers[k]))

GetSummary(k) == Query("getSummary", k, getSummary(trackers[k]))

HealthNext ==
    \/ \E k \in TrackerKeys : GetHealthCheck(k) /\ UNCHANGED busVars
    \/ \E k \in TrackerKeys : GetSummary(k) /\ UNCHANGED busVars

-----------------------------------------------------------------------------
\* Event bus: inputs

\* namespaces of the two module buses
NsA == <<"A">>
NsB == <<"B">>

\* the buses: two NamespacedEventBus objects made by createNamespacedBus and
\* the GlobalEventBus singleton
NamespacedBuses == {"busA", "busB"}
Buses == NamespacedBuses \cup {"global"}

namespace(bus) == IF bus = "busA" THEN NsA ELSE NsB

\* event names clients use: a local name, the same name with the broadcast
\* sigil, and a sigil name that spells out a namespaced key
EvLocal == <<"e">>
EvBroadcast == <<"@", "e">>
EvQualified == <<"@", "A", ":", "e">>
Events == {EvLocal, EvBroadcast, EvQualified}

\* the event names published on each bus: module A's clients use all three,
\* module B's the local and the broadcast name, and the global bus, which does
\* not interpret names, is used with one name
PublishEvents(bus) ==
    CASE bus = "busA" -> Events
      [] bus = "busB" -> {EvLocal, EvBroadcast}
      [] OTHER        -> {EvLocal}

\* the event names handlers are subscribed under
SubscribeEvents(bus) == PublishEvents(bus) \ {EvQualified}

\* handler functions clients register, and what each does when invoked with the
\* bus, event and payload of the publish that reached it
Handlers == {"hNoop", "hThrow", "hSub", "hUnsub"}

HandlerBody(h) ==
    CASE h = "hNoop"  -> [kind |-> "noop", target |-> "hNoop"]
      [] h = "hThrow" -> [kind |-> "throw", target |-> "hThrow"]
      [] h = "hSub"   -> [kind |-> "subscribe", target |-> "hNoop"]
      [] h = "hUnsub" -> [kind |-> "unsubscribe", target |-> "hNoop"]

-----------------------------------------------------------------------------
\* Event bus: operations

\* NamespacedEventBus.getFullEventName
getFullEventName(ns, event) ==
    IF Len(event) > 0 /\ event[1] = "@"
    THEN SubSeq(event, 2, Len(event))
    ELSE ns \o <<":">> \o event

\* the key a bus files an event under: namespaced buses mangle, the global bus
\* uses the event name as it is
FullEvent(bus, event) ==
    IF bus \in NamespacedBuses THEN getFullEventName(namespace(bus), event) ELSE event

\* body of subscribe(): create the Set on first use, add the handler
SubscribeTable(table, key, h) ==
    IF MapHas(table, key)
    THEN MapSet(table, key, SetAdd(table[key], h))
    ELSE MapSet(table, key, <<h>>)

\* the callback subscribe() returns, without the removal of the key
UnsubscribeKeepsKey(table, key, h) ==
    IF MapHas(table, key) THEN MapSet(table, key, SetDelete(table[key], h)) ELSE table

\* body of the callback subscribe() returns
UnsubscribeTable(table, key, h) ==
    IF MapHas(table, key)
    THEN LET s == SetDelete(table[key], h)
         IN  IF Len(s) = 0 THEN MapDelete(table, key) ELSE MapSet(table, key, s)
    ELSE table

\* what one handler does to the table of the bus it was invoked on
HandlerEffect(table, key, h) ==
    LET b == HandlerBody(h)
    IN  CASE b.kind = "subscribe"   -> SubscribeTable(table, key, b.target)
          [] b.kind = "unsubscribe" -> UnsubscribeTable(table, key, b.target)
          [] OTHER                  -> table

\* the arrow function publish() passes to forEach, without the try/catch
CallbackNoCatch(table, key, h) ==
    [table |-> HandlerEffect(table, key, h),
     escaped |-> HandlerBody(h).kind = "throw"]

\* the arrow function publish() passes to forEach: the handler call wrapped in
\* try/catch, so no exception escapes it
Callback(table, key, h) ==
    [table |-> HandlerEffect(table, key, h), escaped |-> FALSE]

\* Set.prototype.forEach over the live Set object `handlers`: entries appended
\* while iterating are visited, entries deleted before being reached are not.
\* st.list is the iterated Set, st.attached says it is still the Set stored
\* under key (it is dropped from the Map once it becomes empty).
RECURSIVE forEach(_, _, _)
forEach(key, st, fuel) ==
    IF st.pos > Len(st.list) \/ fuel = 0 \/ st.escaped
    THEN st
    ELSE LET h == st.list[st.pos]
             r == Callback(st.table, key, h)
             att == st.attached /\ MapHas(r.table, key)
             list2 == IF st.attached
                      THEN (IF MapHas(r.table, key) THEN r.table[key] ELSE <<>>)
                      ELSE st.list
             \* the entry just visited moved left iff an entry at or before it was deleted
             removedBefore == Cardinality({i \in 1..st.pos : st.list[i] \notin Range(list2)})
         IN  forEach(key,
                     [table |-> r.table, list |-> list2, attached |-> att,
                      pos |-> st.pos + 1 - removedBefore,
                      delivered |-> Append(st.delivered, h),
                      escaped |-> r.escaped],
                     fuel - 1)

\* publish(): look the Set up once, then forEach over it
publish(table, key) ==
    IF MapHas(table, key)
    THEN forEach(key,
                 [table |-> table, list |-> table[key], attached |-> TRUE,
                  pos |-> 1, delivered |-> <<>>, escaped |-> FALSE],
                 MaxDeliveries)
    ELSE [table |-> table, list |-> <<>>, attached |-> FALSE,
          pos |-> 1, delivered |-> <<>>, escaped |-> FALSE]

\* publish() as it would be with one table shared by all buses and keyed by the
\* literal event name: every bus's handlers for the event are reached
PublishSharedLiteral(subs, bus, event) ==
    LET RECURSIVE Gather(_)
        Gather(bs) ==
            IF bs = {} THEN <<>>
            ELSE LET b == CHOOSE x \in bs : TRUE
                     k == FullEvent(b, event)
                 IN  (IF MapHas(subs[b], k) THEN subs[b][k] ELSE <<>>) \o Gather(bs \ {b})
    IN  [table |-> subs[bus], delivered |-> Gather(Buses), escaped |-> FALSE]

\* bus.publish(event, payload): this.subscriptions is the bus's own private table
publishOn(subs, bus, event) == publish(subs[bus], FullEvent(bus, event))

NoCall == [op |-> "none"]

BusInitState ==
    /\ subscriptions = [b \in Buses |-> EmptyMap]
    /\ unsubs = {}
    /\ invoked = {}
    /\ preDestroy = {}
    /\ lastCall = NoCall

\* a client calls bus.subscribe(event, h) and keeps the callback it returns; nth
\* tells apart the callbacks of repeated subscriptions of one handler to one key
Subscribe(bus, event, h) ==
    /\ Cardinality(unsubs) < MaxSubscribeCalls
    /\ LET key == FullEvent(bus, event)
           nth == Cardinality({u \in unsubs : u.bus = bus /\ u.event = event /\ u.handler = h})
       IN  /\ subscriptions' = [subscriptions EXCEPT ![bus] = SubscribeTable(@, key, h)]
           /\ unsubs' = unsubs \cup {[bus |-> bus, event |-> event, key |-> key,
                                       handler |-> h, nth |-> nth]}
    /\ lastCall' = NoCall
    /\ UNCHANGED <<invoked, preDestroy>>

\* a client invokes the unsubscribe callback u (again, if it did before)
Unsubscribe(u) ==
    /\ u \in unsubs
    /\ LET t == UnsubscribeTable(subscriptions[u.bus], u.key, u.handler)
       IN  /\ subscriptions' = [subscriptions EXCEPT ![u.bus] = t]
           /\ lastCall' = [op |-> "unsubscribe", callback |-> u, again |-> u \in invoked,
                           changed |-> t # subscriptions[u.bus]]
    /\ invoked' = invoked \cup {u}
    /\ UNCHANGED <<unsubs, preDestroy>>

\* a client calls bus.publish(event, payload)
Publish(bus, event) ==
    /\ LET key == FullEvent(bus, event)
           r == publishOn(subscriptions, bus, event)
       IN  /\ subscriptions' = [subscriptions EXCEPT ![bus] = r.table]
           /\ lastCall' = [op |-> "publish", bus |-> bus, event |-> event,
                           snapshot |-> IF MapHas(subscriptions[bus], key)
                                        THEN subscriptions[bus][key] ELSE <<>>,
                           delivered |-> r.delivered,
                           returned |-> ~r.escaped]
    /\ UNCHANGED <<unsubs, invoked, preDestroy>>

\* NamespacedEventBus.destroy()
Destroy(bus) ==
    /\ bus \in NamespacedBuses
    /\ subscriptions[bus] # EmptyMap
    /\ subscriptions' = [subscriptions EXCEPT ![bus] = EmptyMap]
    /\ preDestroy' = preDestroy \cup {u \in unsubs : u.bus = bus}
    /\ lastCall' = NoCall
    /\ UNCHANGED <<unsubs, invoked>>

BusNext ==
    \/ \E bus \in Buses : \E event \in SubscribeEvents(bus), h \in Handlers :
          Subscribe(bus, event, h) /\ UNCHANGED <<loaderVars, hostVars>>
    \/ \E u \in unsubs : Unsubscribe(u) /\ UNCHANGED <<loaderVars, hostVars>>
    \/ \E bus \in Buses : \E event \in PublishEvents(bus) :
          Publish(bus, event) /\ UNCHANGED <<loaderVars, hostVars>>
    \/ \E bus \in NamespacedBuses : Destroy(bus) /\ UNCHANGED <<loaderVars, hostVars>>

-----------------------------------------------------------------------------
\* Specifications

Init == BusInitState /\ LoaderInitState /\ HostInitState

\* clients of the event buses
SpecBus == Init /\ [][BusNext]_vars

\* direct callers of the loader, up to two calls in progress at a time
SpecLoader == Init /\ [][LoaderNext]_vars

\* callers of MFELoaderService.loadMFE and unloadMFE, up to two calls in progress
\* at a time, with the loader, the React lifecycles and the registry behind them
SpecHost == Init /\ [][HostNext]_vars

\* callers of the telemetry registry and of the trackers it hands out
SpecTelemetry == Init /\ [][TelemetryNext]_vars

MetricsInit == BusInitState /\ LoaderInitState /\ MetricsInitState

\* callers of one tracker whose metrics list is about to fill up
SpecMetrics == MetricsInit /\ [][MetricsNext]_vars

\* callers of the registry of two trackers
RegistryInit == BusInitState /\ LoaderInitState /\ RegistryInitState

SpecRegistry == RegistryInit /\ [][RegistryNext]_vars

\* a reader of the health check and of the summary of one tracker
HealthInit == BusInitState /\ LoaderInitState /\ HealthInitState

SpecHealth == HealthInit /\ [][HealthNext]_vars

-----------------------------------------------------------------------------
\* Loader: properties

\* C1: two load() calls for the same uncached name, both started before either
\* resolved, cause one source fetch and one factory execution between them, and
\* both callers receive the same lifecycle object.
C1_ConcurrentLoadsCoalesce ==
    \A p, q \in Procs :
        (/\ p # q
         /\ procs[p].op = "load" /\ procs[p].pc = "resolved"
         /\ procs[q].op = "load" /\ procs[q].pc = "resolved"
         /\ q \in procs[p].overlap)
        => /\ procs[p].result = procs[q].result
           /\ ~(procs[p].fetched /\ procs[q].fetched)
           /\ ~(procs[p].ran /\ procs[q].ran)

\* C2: while the load() calls for a name have been sequential and no unload() or
\* clearCache() came after its first successful load, every later load() of the
\* name returned the lifecycle object of the first one, and no source fetch or
\* factory execution for the name happened since.
C2_SequentialLoadsHitCache ==
    \A n \in DOMAIN cachedSince :
        seq[n] => (cachedSince[n].extra = 0 /\ ~cachedSince[n].other)

\* a second sequential load() of a cached name has returned
C2_Witness ==
    \E n \in DOMAIN cachedSince : seq[n] /\ cachedSince[n].hits >= 1

\* C21: unload(n) resolves and leaves n out of the cache, and an unload(n) that
\* finds n not cached (a second call in a row, or a name never loaded) resolves
\* and leaves the cache, the loaded URLs, the script elements and the
\* containers as they are
C21_UnloadIdempotent ==
    [][\A p \in Procs, n \in LoaderNames :
          Unload(p, n) =>
              /\ procs'[p].pc = "resolved"
              /\ ~MapHas(loadedMFEs', n)
              /\ ~MapHas(loadedMFEs, n) =>
                     UNCHANGED <<loadedMFEs, loadedScripts, scriptElements, windowScopes>>]_vars

\* unload has been called twice, by one caller and then by the other, for a
\* name whose remote had been loaded
C21_Witness ==
    \E p, q \in Procs :
        /\ p # q
        /\ procs[p].op = "unload" /\ procs[q].op = "unload"
        /\ procs[p].name = procs[q].name
        /\ procs[p].name \in windowScopes

\* C22: unload(n) changes nothing but the cache entry of n: the entries of the
\* other names, the loaded URLs, the script elements, the containers, the
\* mounted instances and the telemetry registry stay as they are
C22_UnloadFrame ==
    [][\A p \in Procs, n \in LoaderNames :
          Unload(p, n) =>
              /\ \A m \in LoaderNames \ {n} :
                     /\ MapHas(loadedMFEs', m) <=> MapHas(loadedMFEs, m)
                     /\ MapHas(loadedMFEs, m) => loadedMFEs'[m] = loadedMFEs[m]
              /\ UNCHANGED <<loadedScripts, scriptElements, windowScopes>>
              /\ UNCHANGED hostVars]_vars

\* unload has been called for a loaded name while another name was cached
C22_Witness ==
    \E p \in Procs :
        /\ procs[p].op = "unload"
        /\ MapHas(scriptElements, procs[p].name)
        /\ \E m \in LoaderNames \ {procs[p].name} : MapHas(loadedMFEs, m)

\* C23: when clearCache() returns no name is cached, no URL counts as loaded and
\* no script element is tracked; and a load() that starts with the loader in
\* that condition fetches its source
C23_ClearCacheDropsAll ==
    [][\A p \in Procs :
          /\ ClearCache(p) =>
                 /\ \A n \in LoaderNames : ~MapHas(loadedMFEs', n)
                 /\ loadedScripts' = {}
                 /\ DOMAIN scriptElements' = {}
          /\ \A n \in LoaderNames :
                 (/\ LoadBegin(p, n, "load")
                  /\ DOMAIN loadedMFEs = {} /\ loadedScripts = {} /\ DOMAIN scriptElements = {})
                     => procs'[p].pc = "awaitScript"]_vars

\* a name whose script had run before is being fetched again, after a
\* clearCache() call
C23_Witness ==
    \E p, q \in Procs :
        /\ procs[q].op = "clearCache"
        /\ procs[p].op = "load" /\ procs[p].pc = "awaitScript"
        /\ procs[p].name \in windowScopes

\* this step makes the load() call of p fail
LoadFails(p) == procs[p].pc # "failed" /\ procs'[p].pc = "failed"

\* C24: a load() that fails leaves the cache as it is and rejects to its
\* caller, and no name is cached whose module does not export both mount and
\* unmount
C24_FailedLoadLeavesCache ==
    [][/\ \A p \in Procs :
             /\ LoadFails(p) => loadedMFEs' = loadedMFEs
             /\ (procs[p].op = "load" /\ procs[p].pc = "failed" /\ procs'[p].pc # "failed")
                    => (procs'[p].op = "load" /\ procs'[p].pc = "rejected")
       /\ \A n \in DOMAIN loadedMFEs' : {"mount", "unmount"} \subseteq exports(n)]_vars

\* a load() of the remote that exports no unmount has been rejected after its
\* factory ran, and the name is not cached
C24_Witness ==
    \E p \in Procs :
        /\ procs[p].op = "load" /\ procs[p].pc = "rejected"
        /\ procs[p].ran /\ ~ExportsValid(procs[p].name)
        /\ ~MapHas(loadedMFEs, procs[p].name)

-----------------------------------------------------------------------------
\* Event bus: properties

HasSigil(event) == Len(event) > 0 /\ event[1] = "@"

PublishDone == lastCall.op = "publish"

\* s restricted to the members of set, in the order of s
Restrict(s, set) == SelectSeq(s, LAMBDA x : x \in set)

\* C3: publish delivers only to the handlers registered for the key when it was
\* called, each at most once and in registration order; a handler subscribed by
\* another handler during the publish is not invoked in that publish.
C3_PublishUsesSnapshot ==
    PublishDone =>
        lastCall.delivered = Restrict(lastCall.snapshot, Range(lastCall.delivered))

\* C4: invoking an unsubscribe callback that was already invoked leaves the
\* subscription table unchanged, also when the same handler was subscribed to
\* the same event again in between.
C4_UnsubscribeIdempotent ==
    (lastCall.op = "unsubscribe" /\ lastCall.again) => ~lastCall.changed

\* C5: a handler that throws does not stop delivery: publish returns normally,
\* and when no delivered handler edits the subscriptions every handler
\* registered for the key is invoked exactly once, in order, throwers included.
C5_ThrowIsIsolated ==
    PublishDone =>
        /\ lastCall.returned
        /\ (\A h \in Range(lastCall.snapshot) : HandlerBody(h).kind \in {"noop", "throw"})
              => lastCall.delivered = lastCall.snapshot

\* a publish reached a handler after a thrower
C5_Witness ==
    /\ PublishDone
    /\ Len(lastCall.delivered) >= 2
    /\ HandlerBody(lastCall.delivered[1]).kind = "throw"
    /\ HandlerBody(lastCall.delivered[2]).kind = "noop"
    /\ lastCall.returned

\* C6: an event without the sigil published on one module's bus reaches only
\* handlers of that bus (registered on it, or subscribed on it by a handler
\* during the publish), never a handler that only another module's bus holds
\* under the same literal event name.
C6_LocalEventStaysLocal ==
    (PublishDone /\ lastCall.bus \in NamespacedBuses /\ ~HasSigil(lastCall.event)) =>
        \A h \in Range(lastCall.delivered) :
            \/ h \in Range(lastCall.snapshot)
            \/ \E g \in Range(lastCall.delivered) :
                  HandlerBody(g).kind = "subscribe" /\ HandlerBody(g).target = h

\* a local event was published and delivered on one bus while the other bus held,
\* under the same literal name, a handler the publishing bus did not hold
C6_Witness ==
    /\ PublishDone /\ lastCall.bus \in NamespacedBuses /\ ~HasSigil(lastCall.event)
    /\ Len(lastCall.delivered) > 0
    /\ \E b \in NamespacedBuses \ {lastCall.bus} :
          /\ MapHas(subscriptions[b], FullEvent(b, lastCall.event))
          /\ \E h \in Range(subscriptions[b][FullEvent(b, lastCall.event)]) :
                h \notin Range(lastCall.delivered)

\* the handler of callback u is subscribed on u's bus under u's key
StillSubscribed(u) ==
    /\ u \notin invoked
    /\ MapHas(subscriptions[u.bus], u.key)
    /\ u.handler \in Range(subscriptions[u.bus][u.key])

\* C7: an event published with the '@' sigil on one module's bus is delivered to
\* the handlers subscribed to the same '@' event on every other module's bus.
C7_BroadcastReachesOtherBuses ==
    (PublishDone /\ lastCall.bus \in NamespacedBuses /\ HasSigil(lastCall.event)) =>
        \A u \in unsubs :
            (u.bus \in NamespacedBuses \ {lastCall.bus} /\ u.event = lastCall.event
                /\ StillSubscribed(u))
            => u.handler \in Range(lastCall.delivered)


-----------------------------------------------------------------------------
\* Host properties

\* the instances of module n whose unmount has run to its end: each is one
\* completed mount -> unmount cycle
CompletedCycles(n) ==
    Cardinality({i \in InstanceIds : instances[i].mfeName = n /\ instances[i].telemetry = Null})

\* the instances mount() has returned for module n
InstancesOf(n) == {i \in InstanceIds : instances[i].mfeName = n}

\* the trackers made for module n
TrackersOf(n) == {k \in DOMAIN trackers : trackers[k].mfeName = n}

\* the tracker obtained for module n: the one the registry keeps by name, or
\* else the newest one made for the module
TrackerFor(n) ==
    IF MapHas(telemetryByMfeName, n) THEN telemetryByMfeName[n]
    ELSE CHOOSE k \in TrackersOf(n) : \A j \in TrackersOf(n) : j <= k

\* no loadMFE or unloadMFE call for module n is in progress
Quiet(n) ==
    \A p \in Procs : procs[p].name = n => procs[p].pc \in {"idle", "resolved", "rejected"}

\* no mount or unmount of module n has thrown: every tracker made for it has
\* started a mount and has recorded no error
NoErrors(n) ==
    \A k \in TrackersOf(n) : trackers[k].errors = 0 /\ trackers[k].operations > 0

\* every instance of module n has been unmounted to the end
AllUnmounted(n) == \A i \in InstancesOf(n) : instances[i].telemetry = Null

\* C8: once every instance of a module has been unmounted, with no call for the
\* module in progress and none of its mounts or unmounts having thrown, the
\* cycle count of the tracker obtained for the module equals the number of
\* mount -> unmount cycles the module has completed
C8_CycleCountMatchesCycles ==
    \A n \in HostNames :
        (Quiet(n) /\ NoErrors(n) /\ AllUnmounted(n) /\ TrackersOf(n) # {})
            => trackers[TrackerFor(n)].cycleCount = CompletedCycles(n)

\* unmount(instance) has resolved: its last statement nulled the tracker reference
UnmountResolved(i) == instances[i].telemetry = Null

\* C9: an instance whose unmount has resolved holds no subscription on the
\* host event bus
C9_NoSubscriptionAfterUnmount ==
    \A i \in InstanceIds : UnmountResolved(i) => i \notin busSubscribers

\* an instance that subscribed while mounted has been unmounted
C9_Witness ==
    \E i \in InstanceIds : UnmountResolved(i) /\ instances[i].subscribed

\* the calls that are inside lifecycle.mount or lifecycle.unmount of instance i
LifecycleInFlight(i) ==
    {p \in Procs : procs[p].inst = i
                   /\ procs[p].pc \in {"awaitMount", "unmountTimer", "awaitUnmount"}}

\* C10: no instance has two lifecycle operations in flight at the same time
C10_NoOverlappingLifecycle ==
    \A i \in InstanceIds : Cardinality(LifecycleInFlight(i)) <= 1


\* the id the mount() call of this step built
DrawnNow == idsDrawn'[Len(idsDrawn')]

\* this step is a mount() call of p in which createRoot or render throws
MountFails(p) ==
    procs[p].pc = "loaded" /\ procs'[p].pc = "mountFailed" /\ ~procs'[p].fault

\* C11: a mount() that fails leaves nothing behind: its id (one no earlier
\* mount built) is not registered, no tracker has become marked as mounted,
\* and the container is empty
C11_FailedMountLeavesNothing ==
    [][\A p \in Procs :
          (MountFails(p) /\ DrawnNow \notin Range(idsDrawn))
              => /\ ~MapHas(telemetry', DrawnNow)
                 /\ \A k \in DOMAIN trackers' :
                        trackers'[k].isMounted => (MapHas(trackers, k) /\ trackers[k].isMounted)
                 /\ containerDom' = 0]_vars


\* this step is a call of lifecycle.unmount(instance) made by p on an instance
\* whose unmount had run to its end before
UnmountAgain(p) ==
    /\ procs[p].pc \in {"idle", "resolved", "rejected"}
    /\ procs'[p].op = "unloadMFE" /\ procs'[p].inst # 0
    /\ instances[procs'[p].inst].unmounted

UnmountCompletes(p) == procs[p].pc # "awaitUnmount" /\ procs'[p].pc = "awaitUnmount"

\* C13: when unmount(i) has run to its end the registry has no entry for the
\* id of i and the container is empty; and an entry for an id appears in the
\* registry only in a mount() call that built that id
C13_DeregisteredAfterUnmount ==
    [][/\ \A p \in Procs :
             UnmountCompletes(p)
                 => /\ ~MapHas(telemetry', instances[procs'[p].inst].id)
                    /\ containerDom' = 0
       /\ \A id \in DOMAIN telemetry' \ DOMAIN telemetry :
             idsDrawn' # idsDrawn /\ DrawnNow = id]_vars

\* an instance has been unmounted to the end, its id is not in the registry
\* and the container is empty
C13_Witness ==
    \E i \in InstanceIds :
        instances[i].unmounted /\ ~MapHas(telemetry, instances[i].id) /\ containerDom = 0


\* C14: no two instances mount() has returned carry the same id
C14_InstanceIdsUnique ==
    \A i, j \in InstanceIds : i # j => instances[i].id # instances[j].id


\* the phase tracker t has open: startMount and startUnmount both set the
\* start time, and set the mounted flag to TRUE and to FALSE
OpenPhase(t) ==
    IF t.mountStartTime = 0 THEN "none" ELSE IF t.isMounted THEN "mount" ELSE "unmount"

\* C15: on a tracker that has recorded no error, startMount or startUnmount
\* fires only while no phase is open, a mount duration is recorded only by the
\* call that fired the startMount, and an unmount duration only for a
\* startUnmount that is open or was fired by the same call
C15_PhasesAlternate ==
    [][\A k \in DOMAIN trackers :
          trackers'[k].errors = 0 =>
              LET t == trackers[k]
                  u == trackers'[k]
                  startedMount == u.operations > t.operations
                  startedUnmount == u.cycleCount > t.cycleCount
              IN  /\ (startedMount \/ startedUnmount) => OpenPhase(t) = "none"
                  /\ u.mountTimes > t.mountTimes => startedMount
                  /\ u.unmountTimes > t.unmountTimes =>
                         (startedUnmount \/ OpenPhase(t) = "unmount")]_vars


\* this step is a load, mount or unmount of p that fails
Fails(p) ==
    /\ procs'[p].pc \in {"failed", "mountFailed", "unmountFailed", "typeError"}
    /\ procs'[p].pc # procs[p].pc

\* the instances that are mounted: returned by mount() and not unmounted to
\* the end
Live == {i \in InstanceIds : instances[i].telemetry # Null}

\* no two mount() calls have built the same id
IdsDistinct(ids) == \A a, b \in 1..Len(ids) : a # b => ids[a] # ids[b]

\* C17: when a load, mount or unmount fails (ids being distinct), every other
\* live instance keeps its registry entry, with the same tracker and the same
\* tracker contents
C17_FailureLeavesOthersAlone ==
    [][\A p \in Procs :
          (Fails(p) /\ IdsDistinct(idsDrawn')) =>
              \A j \in Live \ {procs'[p].inst} :
                  MapHas(telemetry, instances[j].id) =>
                      /\ MapHas(telemetry', instances[j].id)
                      /\ telemetry'[instances[j].id] = telemetry[instances[j].id]
                      /\ trackers'[telemetry[instances[j].id]]
                             = trackers[telemetry[instances[j].id]]]_vars


\* C18: (ids being distinct) no two live instances record into the same tracker
C18_TrackersNotShared ==
    IdsDistinct(idsDrawn) =>
        \A i, j \in Live : i # j => instances[i].telemetry # instances[j].telemetry


\* C19: a mount or unmount in which a telemetry call threw is not rejected
C19_TelemetryFaultNotPropagated ==
    \A p \in Procs : procs[p].fault => procs[p].pc \notin {"mountFailed", "unmountFailed"}


-----------------------------------------------------------------------------
\* Telemetry properties

\* C16: between resets the memory baseline of a tracker is the reading of the
\* first startMount and no later call changes it
C16_BaselineSetOnce ==
    [][\A k \in DOMAIN trackers :
          LET t == trackers[k]
              u == trackers'[k]
          IN  u.resets = t.resets =>
                  /\ (t.operations = 0 /\ u.operations = 1)
                         => u.memoryBaseline = u.memoryAtMount
                  /\ t.operations > 0 => u.memoryBaseline = t.memoryBaseline]_vars

\* a is a prefix of b
IsPrefix(a, b) == Len(a) <= Len(b) /\ \A x \in 1..Len(a) : a[x] = b[x]

\* the getOrCreatePersistentTelemetry call p1 has just made
Got == procs'["p1"]

-----------------------------------------------------------------------------
\* Health check properties

\* the tracker the call of p1 was made on, and what the call returned
Asked == trackers[procs["p1"].trk]
Answer == procs["p1"].result

\* the least-squares slope of the readings h over the cycle numbers 0..n-1:
\* (n * sum(x*y) - sum(x) * sum(y)) / (n * sum(x*x) - sum(x)^2), every sum taken
\* term by term; 0 for fewer than two readings
LeastSquaresSlope(h) ==
    LET n == Len(h)
        sx == SumOf([i \in 1..n |-> i - 1])
        sxx == SumOf([i \in 1..n |-> (i - 1) * (i - 1)])
        sy == SumOf(h)
        sxy == SumOf([i \in 1..n |-> (i - 1) * h[i]])
    IN  IF n < 2 THEN <<0, 1>> ELSE <<n * sxy - sx * sy, n * sxx - sx * sx>>

\* C25: getSummary() reports a leak exactly when the least-squares slope of the
\* post-unmount series exceeds 100KB per cycle or the retained memory exceeds
\* 5MB; the severity is severe when the slope exceeds 500KB or the retained
\* memory 10MB, else moderate when they exceed 250KB or 7MB, else minor, and
\* it is none exactly when no leak is reported
C25_LeakDetection ==
    procs["p1"].op = "getSummary" =>
        LET slope == LeastSquaresSlope(Asked.memoryAfterUnmountHistory)
            retained == Asked.memoryRetained
            leak == Exceeds(slope, <<100 * KB, 1>>) \/ retained > 5 * MB
            severity ==
                IF ~leak THEN "none"
                ELSE IF Exceeds(slope, <<500 * KB, 1>>) \/ retained > 10 * MB THEN "severe"
                ELSE IF Exceeds(slope, <<250 * KB, 1>>) \/ retained > 7 * MB THEN "moderate"
                ELSE "minor"
        IN  /\ Answer.hasLeak = leak
            /\ Answer.leakSeverity = severity
            /\ Answer.leakSeverity = "none" <=> ~Answer.hasLeak

\* a leak has been reported as moderate for its slope alone, and one as severe
\* for its retained memory alone
C25_Witness ==
    /\ procs["p1"].op = "getSummary"
    /\ \/ /\ Answer.leakSeverity = "moderate"
          /\ Asked.memoryRetained <= 5 * MB
       \/ /\ Answer.leakSeverity = "severe"
          /\ ~Exceeds(Answer.trend, <<100 * KB, 1>>)

\* the series grows by GrowthPerCycle in each of TestCycles cycles
GrowsSteadily(h) ==
    Len(h) = TestCycles /\ \A i \in 1..(Len(h) - 1) : h[i + 1] - h[i] = GrowthPerCycle

\* C26: for a post-unmount series of 10 readings that grows by exactly 200KB
\* per cycle the reported slope lies between 150KB and 250KB per cycle, a leak
\* of some severity is reported and the memory sub-check is not healthy
C26_SteadyGrowthDetected ==
    (procs["p1"].op = "getSummary" /\ GrowsSteadily(Asked.memoryAfterUnmountHistory)) =>
        /\ Exceeds(Answer.trend, <<150 * KB, 1>>)
        /\ Exceeds(<<250 * KB, 1>>, Answer.trend)
        /\ Answer.leakSeverity \in {"minor", "moderate", "severe"}
        /\ Answer.health.memory # "healthy"

\* the summary of a tracker with the growing series, starting above 0, has been
\* read, and it reports a minor leak
C26_Witness ==
    /\ procs["p1"].op = "getSummary"
    /\ GrowsSteadily(Asked.memoryAfterUnmountHistory)
    /\ Asked.memoryAfterUnmountHistory[1] > 0
    /\ Answer.leakSeverity = "minor"

\* nothing has been recorded on tracker t
NothingRecorded(t) ==
    /\ t.operations = 0 /\ t.errors = 0 /\ t.mountTimes = 0 /\ t.unmountTimes = 0
    /\ t.memoryAfterUnmountHistory = <<>>

Severity(status) ==
    CASE status = "critical" -> 3
      [] status = "unhealthy" -> 2
      [] status = "degraded" -> 1
      [] OTHER -> 0

\* C28: the overall status of getHealthCheck() is the worst of the statuses of
\* the memory, the performance and the error sub-check
C28_OverallIsWorst ==
    procs["p1"].op = "getHealthCheck" =>
        /\ Answer.status \in {Answer.memory, Answer.performance, Answer.errors}
        /\ \A sub \in {Answer.memory, Answer.performance, Answer.errors} :
               Severity(Answer.status) >= Severity(sub)

\* a health check with three different sub-check statuses has been returned
C28_Witness ==
    /\ procs["p1"].op = "getHealthCheck"
    /\ Answer.memory = "degraded"
    /\ Answer.performance = "healthy"
    /\ Answer.errors = "critical"
    /\ Answer.status = "critical"


-----------------------------------------------------------------------------
\* Registry properties

\* the trackers registered under some instance id
Registered == {telemetry[id] : id \in DOMAIN telemetry}

\* C29: getOverallHealth() returns the worst of the health-check statuses of
\* the trackers registered at the time of the call, and Healthy when none is
\* registered; a tracker that is not registered has no part in it
C29_OverallHealthOfRegistered ==
    [][GetOverallHealth =>
          LET overall == procs'["p1"].result
              statuses == {getHealthCheck(trackers[k]).status : k \in Registered}
          IN  IF Registered = {} THEN overall = "healthy"
              ELSE /\ overall \in statuses
                   /\ \A st \in statuses : Severity(overall) >= Severity(st)]_vars

\* getOverallHealth() has returned a status better than that of a tracker
\* that is no longer registered
C29_Witness ==
    /\ procs["p1"].op = "getOverallHealth"
    /\ Registered # {}
    /\ \E k \in DOMAIN trackers \ Registered :
           Severity(getHealthCheck(trackers[k]).status) > Severity(procs["p1"].result)
    /\ \A k \in Registered : getHealthCheck(trackers[k]).status = procs["p1"].result

\* C30: the list getAll() returns holds the trackers registered at the time of
\* the call, and a later register() or unregister() changes neither its length
\* nor its elements
C30_GetAllIsCopy ==
    [][/\ GetAll =>
             LET all == Elements(procs'["p1"].result, telemetry)
             IN  /\ Len(all) = Cardinality(DOMAIN telemetry)
                 /\ \A k \in DOMAIN trackers :
                        Cardinality({i \in 1..Len(all) : all[i] = k})
                            = Cardinality({id \in DOMAIN telemetry : telemetry[id] = k})
       /\ (procs["p1"].op = "getAll" /\ procs'["p1"] = procs["p1"]) =>
             Elements(procs["p1"].result, telemetry')
                 = Elements(procs["p1"].result, telemetry)]_vars

\* the caller holds a list of two trackers while none is registered any more
C30_Witness ==
    /\ procs["p1"].op = "getAll"
    /\ Len(Elements(procs["p1"].result, telemetry)) = 2
    /\ DOMAIN telemetry = {}


-----------------------------------------------------------------------------
\* Metrics list properties

\* C31: a tracker keeps at most 1000 metrics, and they are the most recently
\* recorded ones in the order they were recorded
C31_MetricsAreLastThousand ==
    \A k \in DOMAIN trackers :
        LET t == trackers[k]
            n == Len(t.metrics)
        IN  /\ n <= 1000
            /\ n = IF t.recorded < 1000 THEN t.recorded ELSE 1000
            /\ \A i \in 1..n : t.metrics[i][2] = t.recorded - n + i

\* more than 1000 metrics have been recorded on a tracker, and the oldest it
\* keeps is not the first one recorded; the newest is of another type
C31_Witness ==
    \E k \in DOMAIN trackers :
        LET t == trackers[k]
        IN  /\ t.recorded > 1000
            /\ t.metrics[1][2] > 1
            /\ t.metrics[Len(t.metrics)][1] # "memory"


-----------------------------------------------------------------------------
\* Event bus: subscription table properties

\* C32: on every bus no key of the subscription table maps to an empty handler
\* set, so a key is in the table exactly when a handler is filed under it
C32_NoEmptyHandlerSet ==
    \A bus \in Buses : \A key \in DOMAIN subscriptions[bus] : subscriptions[bus][key] # <<>>

\* an unsubscribe callback has removed the last handler of its key while
\* another key of the same bus still has one
C32_Witness ==
    /\ lastCall.op = "unsubscribe"
    /\ lastCall.changed
    /\ ~MapHas(subscriptions[lastCall.callback.bus], lastCall.callback.key)
    /\ DOMAIN subscriptions[lastCall.callback.bus] # {}

\* C33: destroy() leaves the bus without subscriptions, a publish on a bus
\* without subscriptions invokes no handler, and invoking an unsubscribe
\* callback obtained before the destroy() removes no handler, those subscribed
\* after the destroy() included
C33_DestroyClearsBus ==
    [][/\ \A bus \in NamespacedBuses : Destroy(bus) => subscriptions'[bus] = EmptyMap
       /\ \A bus \in NamespacedBuses : \A event \in PublishEvents(bus) :
             (Publish(bus, event) /\ subscriptions[bus] = EmptyMap)
                 => lastCall'.delivered = <<>>
       /\ \A u \in preDestroy :
             Unsubscribe(u) => subscriptions'[u.bus] = subscriptions[u.bus]]_vars


-----------------------------------------------------------------------------
\* Error accounting properties

\* the errors recorded on the trackers of module n among the trackers trks
ErrorsOf(trks, n) ==
    LET RECURSIVE Sum(_)
        Sum(ks) == IF ks = {} THEN 0
                   ELSE LET k == CHOOSE x \in ks : TRUE
                        IN  (IF trks[k].mfeName = n THEN trks[k].errors ELSE 0)
                                + Sum(ks \ {k})
    IN  Sum(DOMAIN trks)

\* this step is a mount or unmount of p's module failing, not by a fault of the
\* telemetry calls themselves
LifecycleFails(p) ==
    /\ procs[p].pc \notin {"mountFailed", "unmountFailed", "typeError"}
    /\ procs'[p].pc \in {"mountFailed", "unmountFailed", "typeError"}
    /\ ~procs'[p].fault

\* C34: the error sub-check of a tracker that has counted operations is
\* healthy when errors/operations is at most 1%, degraded when it is above 1%
\* and at most 10%, critical above 10%; and every failing mount or unmount of
\* a module adds exactly one to the errors recorded on that module's tracker
C34_ErrorCheckAndCount ==
    [][/\ \A k \in DOMAIN trackers :
             LET t == trackers[k]
             IN  t.operations > 0 =>
                     getHealthCheck(t).errors =
                         IF 100 * t.errors <= t.operations THEN "healthy"
                         ELSE IF 10 * t.errors <= t.operations THEN "degraded"
                         ELSE "critical"
       /\ \A p \in Procs :
             LifecycleFails(p) =>
                 ErrorsOf(trackers', procs'[p].name) = ErrorsOf(trackers, procs'[p].name) + 1]_vars

\* C35: on every tracker the error count never exceeds the operation count, so
\* the error rate reported lies between 0 and 1
C35_ErrorsWithinOperations ==
    \A k \in DOMAIN trackers :
        LET t == trackers[k]
            rate == getErrorRate(t)
        IN  /\ t.errors <= t.operations
            /\ 0 <= rate[1] /\ rate[1] <= rate[2]


-----------------------------------------------------------------------------
\* Orchestrator properties

\* the loadMFE call that mounted instance i has gone past recording it
MountRecorded(i) == \A p \in Procs : ~(procs[p].pc = "awaitMount" /\ procs[p].inst = i)

\* C36: every instance whose mount has resolved and been recorded by its
\* loadMFE call, and whose root no unmount call has taken down, is the
\* instance loadedInstances holds under its module name
C36_MountedInstanceRecorded ==
    \A i \in InstanceIds :
        (instances[i].rootMounted /\ MountRecorded(i)) =>
            /\ MapHas(loadedInstances, instances[i].mfeName)
            /\ loadedInstances[instances[i].mfeName] = i

\* this step is lifecycle.unmount(instance) throwing inside p's unloadMFE call
UnmountRejects(p) ==
    /\ procs[p].pc \notin {"unmountFailed", "typeError"}
    /\ procs'[p].op = "unloadMFE"
    /\ procs'[p].pc \in {"unmountFailed", "typeError"}

\* C37: when lifecycle.unmount rejects inside unloadMFE the call rejects and
\* neither the failing unmount nor the catch of unloadMFE changes
\* loadedInstances, lifecycleCache or the loader's cache
C37_FailedUnloadKeepsState ==
    [][\A p \in Procs :
          /\ (UnmountRejects(p) \/ UnloadMFEFailed(p)) =>
                 UNCHANGED <<loadedInstances, lifecycleCache, loadedMFEs>>
          /\ UnloadMFEFailed(p) => procs'[p].pc = "rejected"]_vars

\* an unloadMFE retry has failed again on an instance that is still recorded,
\* with its lifecycle and its loader cache entry
C37_Witness ==
    \E p \in Procs :
        /\ procs[p].pc = "unmountFailed"
        /\ MapHas(loadedInstances, procs[p].name)
        /\ loadedInstances[procs[p].name] = procs[p].inst
        /\ MapHas(lifecycleCache, procs[p].name)
        /\ MapHas(loadedMFEs, procs[p].name)
        /\ trackers[instances[procs[p].inst].telemetry].errors >= 2

\* every mount call made so far has resolved with an instance
EveryMountResolved ==
    \A j \in 1..Len(idsDrawn) : \E i \in InstanceIds : instances[i].id = idsDrawn[j]

\* instance i is mounted, every other instance of its module has been
\* unmounted, and its tracker has recorded mounts and unmounts in turn
OnlyMounted(i) ==
    /\ instances[i].telemetry # Null
    /\ \A j \in InstancesOf(instances[i].mfeName) \ {i} : instances[j].unmounted
    /\ LET m == trackers[instances[i].telemetry].metrics
       IN  \A x \in 1..Len(m) : m[x][1] = IF x % 2 = 1 THEN "mount" ELSE "unmount"

\* C38: when no mount has failed and the mounts of a module follow one
\* another, the health check of the tracker registered under the id of the
\* mounted instance, and the one its getHealth() returns, report that id
C38_HealthCheckNamesInstance ==
    \A i \in InstanceIds :
        (EveryMountResolved /\ OnlyMounted(i) /\ MapHas(telemetry, instances[i].id)) =>
            /\ getHealthCheck(trackers[telemetry[instances[i].id]]).instanceId = instances[i].id
            /\ getHealthCheck(trackers[instances[i].telemetry]).instanceId = instances[i].id


-----------------------------------------------------------------------------
\* Event bus: key resolution properties

\* handler h has been subscribed on the bus under the event name
SubscribedUnder(bus, event, h) ==
    \E u \in unsubs : u.bus = bus /\ u.event = event /\ u.handler = h

\* C39: on a namespaced bus a handler subscribed to the local event e only is
\* invoked only by a publish on that bus whose event argument is e: a publish
\* of another event name reaches only handlers subscribed under that name, or
\* subscribed by a handler during the publish
C39_LocalHandlerOnlyByLocalEvent ==
    (PublishDone /\ lastCall.bus \in NamespacedBuses) =>
        \A h \in Range(lastCall.delivered) :
            \/ SubscribedUnder(lastCall.bus, lastCall.event, h)
            \/ \E g \in Range(lastCall.delivered) :
                  HandlerBody(g).kind = "subscribe" /\ HandlerBody(g).target = h


-----------------------------------------------------------------------------
\* Status range properties

\* the statuses the health checks use
StatusesUsed == {"healthy", "degraded", "critical"}

\* C40: no health check reports Unhealthy: for every tracker the three
\* sub-checks and the overall status are Healthy, Degraded or Critical, and so
\* is the overall health of the registry
C40_NeverUnhealthy ==
    /\ \A k \in DOMAIN trackers :
           LET check == getHealthCheck(trackers[k])
           IN  {check.status, check.memory, check.performance, check.errors}
                   \subseteq StatusesUsed
    /\ getOverallHealth(telemetry, trackers) \in StatusesUsed
    /\ procs["p1"].op = "getHealthCheck" => Answer.status \in StatusesUsed
    /\ procs["p1"].op = "getOverallHealth" => Answer \in StatusesUsed

\* a health check has been returned for a tracker whose error rate lies between
\* the warning and the critical threshold, with the other sub-checks healthy
C40_Witness ==
    /\ procs["p1"].op = "getHealthCheck"
    /\ Exceeds(Answer.errorRate, errorsWarning)
    /\ ~Exceeds(Answer.errorRate, errorsCritical)
    /\ Answer.memory = "healthy" /\ Answer.performance = "healthy"
    /\ Answer.status = "degraded"
    /\ getOverallHealth(telemetry, trackers) = "degraded"

=============================================================================
